---------------------------- MODULE Spec2Model ----------------------------
(***************************************************************************)
(* Lobby Experience add-in: the taskpane's processVisitors cycle           *)
(* (TaskpaneApp), the ribbon command quickProcessVisitors, the SharePoint  *)
(* list client (SharePointService), the notification client                *)
(* (PowerAutomateService) and the host change handlers                     *)
(* (OutlookEventService), as one state machine.                            *)
(*                                                                         *)
(* JavaScript runs one handler at a time and suspends it at every await of *)
(* a remote call; an action below is one run of a handler between two      *)
(* suspension points.  A remote call takes effect on the SharePoint list   *)
(* at one instant, and the caller resumes in the same step.                *)
(***************************************************************************)
EXTENDS Integers, Sequences, FiniteSets, TLC

(***************************************************************************)
(* Bounds of the model.                                                    *)
(***************************************************************************)
\* number of processVisitors / quickProcessVisitors invocations in one run
MaxCalls == 2
\* the same number in a burst of triggers for one meeting
MaxBurst == 3
\* the same number where the end of every cycle is looked at
MaxRun == 2
\* number of remote calls that fail for good (all attempts failed) in one run
MaxFaults == 2
\* number of executeWithRetry calls followed attempt by attempt in one run
MaxRetryCalls == 2
\* number of required attendees of the item whose attendees are read
MaxAttendees == 2
\* number of calls made to one instance of a client in one run
MaxServiceCalls == 3
\* number of events processEventChange is called for in one run
MaxEvents == 2
\* number of listeners held for one event type at a time
MaxListeners == 2
\* number of addEventListener, removeEventListener and dispose calls in one run
MaxRegistryCalls == 5
\* number of ribbon commands invoked one after the other in one run
MaxCommands == 3
\* number of saveNotificationHistory calls that store their entry in one run
MaxSaves == 102

(***************************************************************************)
(* Strings are tuples of characters, so that toLowerCase, endsWith and the *)
(* room patterns are computed and not assumed.                             *)
(***************************************************************************)
LowerChar(c) ==
    CASE c = "A" -> "a"
      [] c = "B" -> "b"
      [] c = "C" -> "c"
      [] c = "D" -> "d"
      [] c = "E" -> "e"
      [] c = "I" -> "i"
      [] c = "M" -> "m"
      [] c = "N" -> "n"
      [] c = "O" -> "o"
      [] c = "R" -> "r"
      [] c = "T" -> "t"
      [] c = "X" -> "x"
      [] OTHER -> c

toLowerCase(s) == [k \in DOMAIN s |-> LowerChar(s[k])]

startsWith(s, p) == Len(s) >= Len(p) /\ SubSeq(s, 1, Len(p)) = p

endsWith(s, p) == Len(s) >= Len(p) /\ SubSeq(s, Len(s) - Len(p) + 1, Len(s)) = p

Digits == {"0", "1", "2", "3", "4", "5", "6", "7", "8", "9"}

\* the addresses of the model
a_ext == <<"a", "@", "e", "x", "t">>
A_ext == <<"A", "@", "e", "x", "t">>
b_int == <<"b", "@", "i", "n", "t">>
room1_int == <<"r", "o", "o", "m", "1", "@", "i", "n", "t">>

\* config.outlook of config.json
config == [outlook |-> [internalDomains |-> << <<"i", "n", "t">> >>,
                        excludeRooms |-> TRUE]]

\* OutlookEventService.isRoomEmail: the seven patterns, all with the i flag
isRoomEmail(email) ==
    LET e == toLowerCase(email)
    IN \/ (startsWith(e, <<"r", "o", "o", "m">>) /\ Len(e) >= 5 /\ e[5] \in Digits)
       \/ startsWith(e, <<"c", "o", "n", "f", "e", "r", "e", "n", "c", "e">>)
       \/ startsWith(e, <<"m", "e", "e", "t", "i", "n", "g">>)
       \/ startsWith(e, <<"b", "o", "a", "r", "d", "r", "o", "o", "m">>)
       \/ startsWith(e, <<"c", "o", "n", "f", "-">>)
       \/ endsWith(e, <<"-", "r", "o", "o", "m">>)
       \/ startsWith(e, <<"r", "e", "s", "o", "u", "r", "c", "e", "-">>)

\* a test of the domain that takes the configured domain as it is written
domainSuffix_asWritten(domain) == <<"@">> \o domain

\* filterExternalUsers: `@${domain.toLowerCase()}`
domainSuffix(domain) == <<"@">> \o toLowerCase(domain)

\* filterExternalUsers under the configuration cfg (config.outlook): the
\* attendees kept, in input order
filterExternalUsersWith(cfg, attendees) ==
    LET internalDomains == cfg.internalDomains
        excludeRooms == cfg.excludeRooms \/ TRUE
        keep(attendee) ==
            LET email == toLowerCase(attendee.emailAddress)
            IN /\ Len(attendee.emailAddress) > 0
               /\ ~(excludeRooms /\ isRoomEmail(email))
               /\ ~(\E k \in DOMAIN internalDomains :
                        endsWith(email, domainSuffix(internalDomains[k])))
    IN SelectSeq(attendees, keep)

\* OutlookEventService.filterExternalUsers: the attendees kept, in input order
filterExternalUsers(attendees) == filterExternalUsersWith(config.outlook, attendees)

(***************************************************************************)
(* The host: Office.context.mailbox.item is read by the handlers when they *)
(* run; the user edits and switches items at any time, so every read is an *)
(* input drawn from Items.                                                 *)
(***************************************************************************)
Meetings == {"A", "B"}

Attendee(email) == [emailAddress |-> email]

\* the attendee lists a meeting can have
AttendeeLists ==
    { << Attendee(b_int) >>,
      << Attendee(a_ext), Attendee(b_int), Attendee(room1_int) >>,
      << Attendee(a_ext), Attendee(A_ext) >> }

Appointment(m, l) == [itemType |-> "appointment", itemId |-> m, attendees |-> l]

\* an item that is no appointment (a mail message)
MessageItem == [itemType |-> "message", itemId |-> "none", attendees |-> << >>]

\* the values Office.context.mailbox.item takes: meeting A with each attendee
\* list, meeting B, and a mail message
Items ==
    {Appointment("A", l) : l \in AttendeeLists}
        \cup {Appointment("B", << Attendee(a_ext), Attendee(b_int), Attendee(room1_int) >>)}
        \cup {MessageItem}

\* one meeting whose attendees stay as they are
BurstItems == {Appointment("A", << Attendee(a_ext), Attendee(b_int), Attendee(room1_int) >>)}

NullData == [isNull |-> TRUE, meetingId |-> "none", externalUsers |-> << >>]

\* OutlookEventService.extractEventData: null unless the item is an appointment
extractEventData(it) ==
    IF it.itemType # "appointment"
    THEN NullData
    ELSE [isNull |-> FALSE,
          meetingId |-> it.itemId,
          externalUsers |-> filterExternalUsers(it.attendees)]

VARIABLES
    currentMeetingData,  \* TaskpaneApp.currentMeetingData
    isProcessing,        \* TaskpaneApp.isProcessing
    loading,             \* the loading indicator (showLoading)
    list,                \* the items of the SharePoint list
    nextId,              \* the Id SharePoint gives the next item
    calls,               \* the invocations of processVisitors / quickProcessVisitors,
                         \* in the order they were made
    faults,              \* remote calls that failed for good so far
    started,             \* per meeting: reconciliation cycles started by the taskpane
    unserved,            \* per meeting: the last change trigger started no cycle
    skipped,             \* per meeting: the last change event came while no
                         \* handler was running and found no external user, so
                         \* that no listener was called; nothing was invoked for
                         \* the meeting since
    retry,               \* one call of executeWithRetry, attempt by attempt
    service,             \* one instance of a client (PowerAutomateService or
                         \* SharePointService) and the call it is serving
    classified,          \* one reading of the attendees of an item and the
                         \* external users filterExternalUsers made of it
    extraction,          \* one call of OutlookEventService.extractEventData:
                         \* its sub-fetches, its counters and its promise
    fanout,              \* the listeners of OutlookEventService and the
                         \* processEventChange in progress
    command,             \* one ribbon command and the event it was invoked with
    history              \* the notification history in localStorage and the
                         \* last call made on it

vars == <<currentMeetingData, isProcessing, loading, list, nextId, calls,
          faults, started, unserved, skipped, retry,
                   service, classified, extraction, fanout, command, history>>

\* the parts of the add-in that take no part in a reconciliation cycle
addinVars == <<extraction, fanout, command, history>>


(***************************************************************************)
(* SharePoint list items.                                                  *)
(***************************************************************************)
RECURSIVE SortById(_)
\* the items of a set in the order SharePoint returns them (by Id)
SortById(S) ==
    IF S = {} THEN << >>
    ELSE LET r == CHOOSE x \in S : \A y \in S : x.Id <= y.Id
         IN << r >> \o SortById(S \ {r})

\* GET items?$filter=MeetingId eq '<meetingId>'
itemsOfMeeting(items, meetingId) ==
    SortById({r \in items : r.MeetingId = meetingId})

\* the record createVisitorRecord builds for one user
visitorRecord(id, meetingId, user) ==
    [Id |-> id, MeetingId |-> meetingId, VisitorEmail |-> user.emailAddress,
     Status |-> "Scheduled"]

(***************************************************************************)
(* One invocation of processVisitors (origin "event": called by            *)
(* handleOutlookEvent; origin "button": handleProcessVisitors) or of       *)
(* quickProcessVisitors (origin "ribbon").                                 *)
(***************************************************************************)
RunningPcs == {"read", "delete", "create", "notify", "stats"}

\* the invocation is between the start and the completion of its cycle
Running(c) == c.pc \in RunningPcs

Taskpane(c) == c.origin \in {"event", "button"}

\* the meetings a cycle is running for
runningMeetings(cs) ==
    {cs[t].data.meetingId : t \in {u \in DOMAIN cs : Running(cs[u])}}

\* processVisitors: which SharePoint call the change type selects
storeMode(changeType) ==
    IF changeType \in {"manual", "created", "recipients_changed"} THEN "update"
    ELSE IF changeType = "deleted" THEN "delete"
    ELSE "none"

\* processVisitors: changeType === 'manual' ? 'created' : changeType
notificationTypeOf(changeType) ==
    IF changeType = "manual" THEN "created" ELSE changeType

\* where the caller of processVisitors goes on: handleOutlookEvent refreshes
\* the meeting information, the other callers are finished
afterProcess(origin) == IF origin = "event" THEN "refresh" ELSE "done"

NewCall(origin, changeType, data) ==
    [origin |-> origin,
     changeType |-> changeType,
     mode |-> IF origin = "ribbon" THEN "update" ELSE storeMode(changeType),
     notificationType |-> IF origin = "ribbon" THEN "created"
                          ELSE notificationTypeOf(changeType),
     data |-> data,
     pc |-> "done",
     outcome |-> "none",
     existingRecords |-> << >>,
     toDelete |-> << >>,
     toCreate |-> << >>,
     i |-> 1,
     ops |-> << >>,
     notifications |-> << >>,
     pendingRerun |-> FALSE,
     runningAtCall |-> {},
     finalRecords |-> << >>]

\* the e-mail addresses of a sequence of attendees, of records, of log entries
userEmails(users) == [k \in DOMAIN users |-> toLowerCase(users[k].emailAddress)]

recordEmails(records) == [k \in DOMAIN records |-> toLowerCase(records[k].VisitorEmail)]

Range(f) == {f[k] : k \in DOMAIN f}

\* a client that deletes only the records of those who are no longer invited
recordsToDelete_diff(existingRecords, externalUsers) ==
    LET wanted == Range(userEmails(externalUsers))
    IN SelectSeq(existingRecords, LAMBDA r : toLowerCase(r.VisitorEmail) \notin wanted)

\* a client that creates only the records of those who have none
usersToCreate_diff(existingRecords, externalUsers) ==
    LET present == Range(recordEmails(existingRecords))
    IN SelectSeq(externalUsers, LAMBDA u : toLowerCase(u.emailAddress) \notin present)

\* updateVisitorRecords / deleteVisitorRecords: every existing record is deleted
recordsToDelete(existingRecords, externalUsers) == existingRecords

\* updateVisitorRecords: a record is created for every external user
usersToCreate(existingRecords, externalUsers) == externalUsers

\* a client that creates the new records before it deletes the old ones
NextPhase_createFirst(phase, c) ==
    CASE phase = "entry" ->
            IF c.mode = "none" THEN "notify" ELSE "read"
      [] phase = "read" ->
            IF c.mode = "update" /\ Len(c.toCreate) > 0 THEN "create"
            ELSE IF Len(c.toDelete) > 0 THEN "delete"
            ELSE "notify"
      [] phase = "create" ->
            IF Len(c.toDelete) > 0 THEN "delete" ELSE "notify"
      [] phase = "delete" -> "notify"
      [] phase = "notify" ->
            IF Taskpane(c) THEN "stats" ELSE "done"
      [] OTHER -> "done"

\* the phase that follows `phase` in the cycle of invocation c
NextPhase(phase, c) ==
    CASE phase = "entry" ->
            IF c.mode = "none" THEN "notify" ELSE "read"
      [] phase = "read" ->
            IF Len(c.toDelete) > 0 THEN "delete"
            ELSE IF c.mode = "update" /\ Len(c.toCreate) > 0 THEN "create"
            ELSE "notify"
      [] phase = "delete" ->
            IF c.mode = "update" /\ Len(c.toCreate) > 0 THEN "create" ELSE "notify"
      [] phase = "create" -> "notify"
      [] phase = "notify" ->
            IF Taskpane(c) THEN "stats" ELSE "done"
      [] OTHER -> "done"

\* an entry of the invocation's log of remote calls
Op(op, id, email, type) ==
    [op |-> op, id |-> id, email |-> email, type |-> type, result |-> "pending"]

\* the call is logged when it is issued
logIssue(c, e) == Append(c.ops, e)

\* the call in flight (the last of the log) ends with `result`
settle(ops, result) == [ops EXCEPT ![Len(ops)].result = result]

\* the invocation moves from `phase` to the next phase
enter(c, phase) ==
    [c EXCEPT !.pc = NextPhase(phase, c), !.i = 1]

\* a loop over n elements: the next element, or the next phase after the last
step(c, phase, n) ==
    IF c.i < n THEN [c EXCEPT !.i = c.i + 1] ELSE enter(c, phase)

\* a caller that goes on to the notifications after a SharePoint error
abortCycle_notify(c) ==
    [c EXCEPT !.pc = "notify", !.i = 1, !.outcome = "error"]

\* a createVisitorRecord that goes on with the next user after an error
createFailed_continue(c) ==
    IF c.i < Len(c.toCreate)
    THEN [c EXCEPT !.i = c.i + 1]
    ELSE [c EXCEPT !.pc = "notify", !.i = 1]

\* an error reaches the catch of processVisitors / quickProcessVisitors:
\* the cycle ends without any further remote call
abortCycle(c) ==
    [c EXCEPT !.pc = afterProcess(c.origin), !.outcome = "error"]

\* createVisitorRecord: the error of createListItem is logged and thrown again
createFailed(c) == abortCycle(c)

\* a sendVisitorNotification that gives the batch up at the first error
notifyFailed_abort(c, error) ==
    [c EXCEPT !.notifications =
         Append(@, [email |-> c.data.externalUsers[c.i].emailAddress,
                    success |-> FALSE, error |-> error]),
              !.pc = NextPhase("notify", c), !.i = 1]

\* sendVisitorNotification: what it returns for the entries it collected
notificationResult(notifications) ==
    LET successCount == Len(SelectSeq(notifications, LAMBDA n : n.success))
        failureCount == Len(SelectSeq(notifications, LAMBDA n : ~n.success))
    IN [success |-> failureCount = 0,
        notificationsSent |-> successCount,
        failures |-> failureCount,
        details |-> notifications]

\* sendVisitorNotification: the error of one user is recorded and the loop goes on
notifyFailed(c, error) ==
    step([c EXCEPT !.notifications =
              Append(@, [email |-> c.data.externalUsers[c.i].emailAddress,
                         success |-> FALSE, error |-> error])],
         "notify", Len(c.data.externalUsers))

\* the cycle of c ends here: what findByMeeting would return now
finish(c, items) ==
    IF Running(c) THEN c
    ELSE [c EXCEPT !.outcome = IF @ = "running" THEN "ok" ELSE @,
                   !.finalRecords = itemsOfMeeting(items, c.data.meetingId)]

\* a processVisitors that clears the flag at the end of its try block only
releaseFlag_inTry(c) ==
    IF Taskpane(c) /\ ~Running(c) /\ c.outcome # "error"
    THEN isProcessing' = FALSE /\ loading' = FALSE
    ELSE UNCHANGED <<isProcessing, loading>>

\* the finally of processVisitors, when the invocation c left its cycle
releaseFlag(c) ==
    IF Taskpane(c) /\ ~Running(c)
    THEN isProcessing' = FALSE /\ loading' = FALSE
    ELSE UNCHANGED <<isProcessing, loading>>

\* no call of executeWithRetry is looked at
NoRetry == [status |-> "idle", n |-> 0]

\* no instance of a client is looked at
NoService == [pc |-> "none"]

\* no reading of attendees is looked at
NoClassified == [pc |-> "none"]

\* no extractEventData, no listener registry, no command, no history modelled
NoExtraction == [pc |-> "none"]

NoFanout == [pc |-> "none"]

NoCommand == [pc |-> "none"]

NoHistory == [pc |-> "none"]

addinIdle ==
    /\ extraction = NoExtraction
    /\ fanout = NoFanout
    /\ command = NoCommand
    /\ history = NoHistory

Start(items) ==
    /\ \E it \in items : currentMeetingData = extractEventData(it)
    /\ isProcessing = FALSE
    /\ loading = FALSE
    /\ list = {}
    /\ nextId = 1
    /\ calls = << >>
    /\ faults = 0
    /\ started = [m \in Meetings |-> 0]
    /\ unserved = [m \in Meetings |-> FALSE]
    /\ skipped = [m \in Meetings |-> FALSE]
    /\ retry = NoRetry
    /\ addinIdle
    /\ service = NoService
    /\ classified = NoClassified

(***************************************************************************)
(* TaskpaneApp.processVisitors, from its call to its first await.          *)
(***************************************************************************)
\* a change trigger for meeting m while a cycle of m is running: the running
\* cycles of m are marked as having received a trigger
markPending(cs, origin, m) ==
    [t \in DOMAIN cs |->
        IF origin = "event" /\ Taskpane(cs[t]) /\ Running(cs[t])
           /\ cs[t].data.meetingId = m
        THEN [cs[t] EXCEPT !.pendingRerun = TRUE]
        ELSE cs[t]]

\* a handler is invoked: the invocation gets the next number
invoke(cs, c) == Append(cs, c)

processVisitors(origin, meetingData, changeType) ==
    LET data == IF meetingData.isNull THEN currentMeetingData ELSE meetingData
        c0 == [NewCall(origin, changeType, data) EXCEPT
                   !.runningAtCall = runningMeetings(calls)]
        others == IF data.isNull THEN calls
                  ELSE markPending(calls, origin, data.meetingId)
    IN IF isProcessing
       THEN \* the guard returns; the finally block runs all the same
            /\ isProcessing' = FALSE
            /\ loading' = FALSE
            /\ calls' = invoke(others, [c0 EXCEPT !.outcome = "rejected",
                                                  !.pc = afterProcess(origin)])
            /\ started' = started
            /\ unserved' = IF origin = "event" /\ ~data.isNull
                           THEN [unserved EXCEPT ![data.meetingId] = TRUE]
                           ELSE unserved
       ELSE IF data.isNull \/ Len(data.externalUsers) = 0
       THEN \* the flag is set, nothing is to be done, the finally block clears it
            /\ isProcessing' = FALSE
            /\ loading' = FALSE
            /\ calls' = invoke(others, [c0 EXCEPT !.outcome = "nodata",
                                                  !.pc = afterProcess(origin)])
            /\ started' = started
            /\ unserved' = IF origin = "event" /\ ~data.isNull
                           THEN [unserved EXCEPT ![data.meetingId] = TRUE]
                           ELSE unserved
       ELSE /\ isProcessing' = TRUE
            /\ loading' = TRUE
            /\ calls' = invoke(others, enter([c0 EXCEPT !.outcome = "running"], "entry"))
            /\ started' = [started EXCEPT ![data.meetingId] = @ + 1]
            /\ unserved' = [unserved EXCEPT ![data.meetingId] = FALSE]

\* TaskpaneApp.handleOutlookEvent, up to the first await
handleOutlookEvent(eventType, eventData) ==
    IF ~eventData.isNull /\ Len(eventData.externalUsers) > 0
    THEN processVisitors("event", eventData, eventType)
    ELSE /\ calls' = invoke(calls, [NewCall("event", eventType, eventData) EXCEPT
                                        !.outcome = "skipped", !.pc = "refresh"])
         /\ UNCHANGED <<isProcessing, loading, started, unserved>>

\* OutlookEventService.processEventChange: the listeners of the change type
\* (none is registered) and then the listeners of 'all' (the taskpane's)
processEventChange(changeType, eventData) ==
    handleOutlookEvent(changeType, eventData)

\* the body shared by the four change handlers of OutlookEventService: the
\* item is read, and the listeners are called when it has external users
changeHandler(changeType, items) ==
    /\ \E it \in items :
         LET eventData == extractEventData(it)
         IN IF ~eventData.isNull /\ Len(eventData.externalUsers) > 0
            THEN /\ processEventChange(changeType, eventData)
                 /\ skipped' = [skipped EXCEPT ![eventData.meetingId] = FALSE]
            ELSE /\ UNCHANGED <<isProcessing, loading, calls, started, unserved>>
                 /\ skipped' = IF eventData.isNull THEN skipped
                                ELSE [skipped EXCEPT ![eventData.meetingId] =
                                         \A t \in DOMAIN calls : calls[t].pc = "done"]
    /\ UNCHANGED <<currentMeetingData, list, nextId, faults, retry,
                   service, classified, addinVars>>

handleRecipientsChanged(items) == changeHandler("recipients_changed", items)

handleSubjectChanged(items) == changeHandler("subject_changed", items)

handleTimeChanged(items) == changeHandler("time_changed", items)

handleAppointmentChanged(items) == changeHandler("appointment_changed", items)

\* the button is enabled by refreshMeetingInfo when there are external users
processVisitorsBtnEnabled ==
    ~currentMeetingData.isNull /\ Len(currentMeetingData.externalUsers) > 0

\* the "process visitors" button of the taskpane
handleProcessVisitors ==
    /\ processVisitorsBtnEnabled
    /\ processVisitors("button", NullData, "manual")
    /\ skipped' = [skipped EXCEPT ![currentMeetingData.meetingId] = FALSE]
    /\ UNCHANGED <<currentMeetingData, list, nextId, faults, retry,
                   service, classified, addinVars>>

\* the ribbon command, up to its first SharePoint call
quickProcessVisitors(items) ==
    /\ \E it \in items :
         LET meetingData == extractEventData(it)
             c0 == [NewCall("ribbon", "manual", meetingData) EXCEPT
                        !.runningAtCall = runningMeetings(calls)]
         IN IF meetingData.isNull \/ Len(meetingData.externalUsers) = 0
            THEN /\ calls' = invoke(calls, [c0 EXCEPT !.outcome = "nodata"])
                 /\ skipped' = skipped
            ELSE /\ calls' = invoke(calls, enter([c0 EXCEPT !.outcome = "running"], "entry"))
                 /\ skipped' = [skipped EXCEPT ![meetingData.meetingId] = FALSE]
    /\ UNCHANGED <<currentMeetingData, isProcessing, loading, list, nextId,
                   faults, started, unserved, retry,
                   service, classified, addinVars>>

(***************************************************************************)
(* The remote calls of a cycle.  Each action is the end of the call the     *)
(* invocation t is suspended at: executeWithRetry returns the result of    *)
(* the attempt that succeeded, or throws after the last retry.             *)
(***************************************************************************)
\* the call the invocation c is suspended at, as a log entry
currentOp(c) ==
    CASE c.pc = "read" -> Op("read", 0, << >>, "")
      [] c.pc = "delete" ->
            Op("remove", c.toDelete[c.i].Id, c.toDelete[c.i].VisitorEmail, "")
      [] c.pc = "create" -> Op("create", 0, c.toCreate[c.i].emailAddress, "")
      [] c.pc = "notify" ->
            Op("notify", 0, c.data.externalUsers[c.i].emailAddress, c.notificationType)
      [] OTHER -> Op("none", 0, << >>, "")

\* the invocation t becomes c; its cycle may have ended with this step
resume(t, c) ==
    /\ calls' = [calls EXCEPT ![t] = finish(c, list')]
    /\ releaseFlag(c)

\* SharePointService.getVisitorRecordsByMeetingId answers
getVisitorRecordsByMeetingId(t) ==
    LET c == calls[t]
        existing == itemsOfMeeting(list, c.data.meetingId)
        c1 == [c EXCEPT !.ops = settle(logIssue(c, currentOp(c)), "ok"),
                        !.existingRecords = existing,
                        !.toDelete = recordsToDelete(existing, c.data.externalUsers),
                        !.toCreate = usersToCreate(existing, c.data.externalUsers)]
    IN /\ c.pc = "read"
       /\ list' = list
       /\ resume(t, enter(c1, "read"))
       /\ UNCHANGED <<currentMeetingData, nextId, faults, started, unserved,
                      skipped, retry,
                   service, classified, addinVars>>

\* SharePointService.deleteListItem answers: 2xx, or 404 when the item is gone
deleteListItem(t) ==
    LET c == calls[t]
        c1 == [c EXCEPT !.ops = settle(logIssue(c, currentOp(c)), "ok")]
    IN /\ c.pc = "delete"
       /\ list' = {r \in list : r.Id # c.toDelete[c.i].Id}
       /\ resume(t, step(c1, "delete", Len(c.toDelete)))
       /\ UNCHANGED <<currentMeetingData, nextId, faults, started, unserved,
                      skipped, retry,
                   service, classified, addinVars>>

\* SharePointService.createListItem answers
createListItem(t) ==
    LET c == calls[t]
        c1 == [c EXCEPT !.ops = settle(logIssue(c, currentOp(c)), "ok")]
    IN /\ c.pc = "create"
       /\ list' = list \cup {visitorRecord(nextId, c.data.meetingId, c.toCreate[c.i])}
       /\ nextId' = nextId + 1
       /\ resume(t, step(c1, "create", Len(c.toCreate)))
       /\ UNCHANGED <<currentMeetingData, faults, started, unserved, skipped, retry,
                   service, classified, addinVars>>

\* PowerAutomateService.sendSingleNotification answers with a 2xx
sendSingleNotification(t) ==
    LET c == calls[t]
        c1 == [c EXCEPT !.ops = settle(logIssue(c, currentOp(c)), "ok"),
                        !.notifications =
                            Append(@, [email |-> c.data.externalUsers[c.i].emailAddress,
                                       success |-> TRUE, error |-> ""])]
    IN /\ c.pc = "notify"
       /\ list' = list
       /\ resume(t, step(c1, "notify", Len(c.data.externalUsers)))
       /\ UNCHANGED <<currentMeetingData, nextId, faults, started, unserved,
                      skipped, retry,
                   service, classified, addinVars>>

\* what the last attempt of a call can fail with: an error status or a
\* network error, and for a notification the abort of its timeout
lastErrors(pc) ==
    IF pc = "notify" THEN {"HTTP error", "AbortError"} ELSE {"HTTP error"}

\* a catch that throws the abort as it caught it
sendSingleNotificationCatch_raw(error) == error

\* sendSingleNotification: the catch around fetch turns the abort of the
\* timeout into a timeout error and throws every other error as it is
sendSingleNotificationCatch(error) ==
    IF error = "AbortError" THEN "Request timeout" ELSE error

\* executeWithRetry gives up: the first attempt and the maxRetries retries of
\* the call have all failed (a failed attempt leaves the list as it is), and
\* the error of the last attempt is thrown to the caller
executeWithRetry(t) ==
    LET c == calls[t]
        failed == [c EXCEPT !.ops = settle(logIssue(c, currentOp(c)), "failed")]
    IN /\ c.pc \in {"read", "delete", "create", "notify"}
       /\ faults < MaxFaults
       /\ faults' = faults + 1
       /\ list' = list
       /\ \E error \in lastErrors(c.pc) :
            CASE c.pc = "notify" ->
                   resume(t, notifyFailed(failed, sendSingleNotificationCatch(error)))
              [] c.pc = "create" -> resume(t, createFailed(failed))
              [] OTHER -> resume(t, abortCycle(failed))
       /\ UNCHANGED <<currentMeetingData, nextId, started, unserved, skipped, retry,
                   service, classified, addinVars>>

\* TaskpaneApp.refreshStatistics, the last await of processVisitors; the
\* finally block follows
refreshStatistics(t) ==
    LET c == calls[t]
    IN /\ c.pc = "stats"
       /\ list' = list
       /\ resume(t, [c EXCEPT !.pc = afterProcess(c.origin)])
       /\ UNCHANGED <<currentMeetingData, nextId, faults, started, unserved,
                      skipped, retry,
                   service, classified, addinVars>>

\* TaskpaneApp.refreshMeetingInfo, the end of handleOutlookEvent
refreshMeetingInfo(t, items) ==
    LET c == calls[t]
    IN /\ c.pc = "refresh"
       /\ \E it \in items : currentMeetingData' = extractEventData(it)
       /\ calls' = [calls EXCEPT ![t].pc = "done"]
       /\ UNCHANGED <<isProcessing, loading, list, nextId, faults,
                      started, unserved, skipped, retry,
                   service, classified, addinVars>>

Init == Start(Items)

Next ==
    \/ Len(calls) < MaxCalls /\ handleRecipientsChanged(Items)
    \/ Len(calls) < MaxCalls /\ handleSubjectChanged(Items)
    \/ Len(calls) < MaxCalls /\ handleTimeChanged(Items)
    \/ Len(calls) < MaxCalls /\ handleAppointmentChanged(Items)
    \/ Len(calls) < MaxCalls /\ handleProcessVisitors
    \/ Len(calls) < MaxCalls /\ quickProcessVisitors(Items)
    \/ \E t \in DOMAIN calls : getVisitorRecordsByMeetingId(t)
    \/ \E t \in DOMAIN calls : deleteListItem(t)
    \/ \E t \in DOMAIN calls : createListItem(t)
    \/ \E t \in DOMAIN calls : sendSingleNotification(t)
    \/ \E t \in DOMAIN calls : executeWithRetry(t)
    \/ \E t \in DOMAIN calls : refreshStatistics(t)
    \/ \E t \in DOMAIN calls : refreshMeetingInfo(t, Items)

Spec == Init /\ [][Next]_vars

(***************************************************************************)
(* A burst of triggers for one meeting.                                    *)
(***************************************************************************)
InitBurst == Start(BurstItems)

NextBurst ==
    \/ Len(calls) < MaxBurst /\ handleRecipientsChanged(BurstItems)
    \/ Len(calls) < MaxBurst /\ handleSubjectChanged(BurstItems)
    \/ Len(calls) < MaxBurst /\ handleTimeChanged(BurstItems)
    \/ Len(calls) < MaxBurst /\ handleAppointmentChanged(BurstItems)
    \/ Len(calls) < MaxBurst /\ handleProcessVisitors
    \/ Len(calls) < MaxBurst /\ quickProcessVisitors(BurstItems)
    \/ \E t \in DOMAIN calls : getVisitorRecordsByMeetingId(t)
    \/ \E t \in DOMAIN calls : deleteListItem(t)
    \/ \E t \in DOMAIN calls : createListItem(t)
    \/ \E t \in DOMAIN calls : sendSingleNotification(t)
    \/ \E t \in DOMAIN calls : executeWithRetry(t)
    \/ \E t \in DOMAIN calls : refreshStatistics(t)
    \/ \E t \in DOMAIN calls : refreshMeetingInfo(t, BurstItems)

SpecBurst == InitBurst /\ [][NextBurst]_vars

(***************************************************************************)
(* Properties of the coordination of cycles.                               *)
(***************************************************************************)
\* the invocation is between its first SharePoint call and its last
\* notification send
Reconciling(c) == c.pc \in {"read", "delete", "create", "notify"}

\* every handler has returned: the program does nothing more by itself
Quiescent == \A t \in DOMAIN calls : calls[t].pc = "done"

\* the taskpane invocations that are reconciling meeting m
reconcilingFor(m) ==
    {t \in DOMAIN calls : /\ Taskpane(calls[t])
                          /\ Reconciling(calls[t])
                          /\ calls[t].data.meetingId = m}

\* C1: at most one reconciliation of the taskpane is executing for a meeting
\* at any time, whatever the order of the change events and button presses.
MutualExclusion == \A m \in Meetings : Cardinality(reconcilingFor(m)) <= 1

\* a second trigger was rejected while the first cycle is still running
C1_SecondRejected ==
    \E t, u \in DOMAIN calls :
        /\ t < u
        /\ Taskpane(calls[t]) /\ Reconciling(calls[t])
        /\ Taskpane(calls[u]) /\ calls[u].outcome = "rejected"
        /\ calls[u].data.meetingId = calls[t].data.meetingId

\* C2: when a cycle that received change triggers while it was running
\* completes successfully, exactly one more cycle is started for its meeting.
Coalescing ==
    [][\A t \in DOMAIN calls :
          (/\ Taskpane(calls[t])
           /\ Running(calls[t])
           /\ calls[t].pendingRerun
           /\ calls'[t].outcome = "ok")
          => started'[calls[t].data.meetingId] = started[calls[t].data.meetingId] + 1]_vars

\* C3: no change trigger is lost: once the program is at rest (here after a
\* run in which no remote call failed), the last change trigger of every
\* meeting has been followed by the start of a cycle.
NoLostTrigger == (Quiescent /\ faults = 0) => \A m \in Meetings : ~unserved[m]

\* C4: a change trigger for a meeting is not dropped because a cycle of
\* another meeting is running: it starts a reconciliation of its own.
IndependenceAcrossMeetings ==
    \A t \in DOMAIN calls :
        (/\ calls[t].origin = "event"
         /\ calls[t].runningAtCall # {}
         /\ calls[t].data.meetingId \notin calls[t].runningAtCall)
        => calls[t].outcome # "rejected"

(***************************************************************************)
(* Properties of one cycle, read from the invocation's log of remote calls.*)
(***************************************************************************)
\* the calls of one kind in the log of invocation c, in the order they were made
opsOfKind(c, kind) == SelectSeq(c.ops, LAMBDA e : e.op = kind)

opEmails(ops) == [k \in DOMAIN ops |-> toLowerCase(ops[k].email)]

opIds(ops) == [k \in DOMAIN ops |-> ops[k].id]

recordIds(records) == [k \in DOMAIN records |-> records[k].Id]

allOk(ops) == \A k \in DOMAIN ops : ops[k].result = "ok"

\* C5: after a reconciliation that ran alone and completed successfully, the
\* list holds exactly one Scheduled record per distinct external e-mail
\* address of the snapshot for the meeting, and no other record of the meeting.
Convergence ==
    \A t \in DOMAIN calls :
        (Len(calls) = 1 /\ calls[t].mode = "update" /\ calls[t].outcome = "ok")
        => LET emails == Range(userEmails(calls[t].data.externalUsers))
               recs == calls[t].finalRecords
           IN /\ Len(recs) = Cardinality(emails)
              /\ \A e \in emails :
                    \E k \in DOMAIN recs :
                        recordEmails(recs)[k] = e /\ recs[k].Status = "Scheduled"

\* no cycle was running when invocation t was made, and no invocation has
\* been made since
Alone(t) == calls[t].runningAtCall = {} /\ t = Len(calls)

\* invocation t is the second of two reconciliations run in succession with
\* the same snapshot, the first of which succeeded
Successive(t) ==
    /\ t > 1
    /\ Alone(t)
    /\ calls[t - 1].mode = "update"
    /\ calls[t - 1].outcome = "ok"
    /\ calls[t].mode = "update"
    /\ calls[t].data = calls[t - 1].data

OrderWithinCycle ==
    \A t \in DOMAIN calls :
        LET c == calls[t]
            removes == opsOfKind(c, "remove")
            creates == opsOfKind(c, "create")
            notifies == opsOfKind(c, "notify")
        IN /\ (c.pc = "create" \/ creates # << >>)
                => Len(removes) = Len(c.toDelete) /\ allOk(removes)
           /\ (c.mode = "update" /\ (c.pc = "notify" \/ notifies # << >>))
                => /\ Len(removes) = Len(c.toDelete) /\ allOk(removes)
                   /\ Len(creates) = Len(c.toCreate) /\ allOk(creates)
           /\ \A i, j \in DOMAIN c.ops :
                 i < j => /\ ~(c.ops[i].op = "create" /\ c.ops[j].op = "remove")
                          /\ ~(c.ops[i].op = "notify"
                               /\ c.ops[j].op \in {"remove", "create"})

\* a cycle has removed, created and notified
C8_FullCycle ==
    \E t \in DOMAIN calls :
        /\ calls[t].outcome = "ok"
        /\ opsOfKind(calls[t], "remove") # << >>
        /\ opsOfKind(calls[t], "create") # << >>
        /\ opsOfKind(calls[t], "notify") # << >>

\* the creations of invocation c that failed
failedCreates(c) == SelectSeq(c.ops, LAMBDA e : e.op = "create" /\ e.result = "failed")

failedStoreOps(c) ==
    SelectSeq(c.ops, LAMBDA e : e.op \in {"read", "remove", "create"} /\ e.result = "failed")

notified(c) ==
    /\ c.outcome \in {"running", "ok"}
    /\ c.pc \in {"stats", "refresh", "done"}

\* C11: sendVisitorNotification attempts every user whatever attempts fail:
\* it returns one detail entry per user in input order, each telling whether
\* that user's send succeeded, notificationsSent + failures is the number of
\* users, and success is true exactly when there is no failure.
PartialFailureTolerance ==
    \A t \in DOMAIN calls :
        notified(calls[t]) =>
            LET c == calls[t]
                users == c.data.externalUsers
                sends == opsOfKind(c, "notify")
                r == notificationResult(c.notifications)
            IN /\ Len(sends) = Len(users)
               /\ Len(r.details) = Len(users)
               /\ \A k \in DOMAIN users :
                     /\ sends[k].email = users[k].emailAddress
                     /\ r.details[k].email = users[k].emailAddress
                     /\ r.details[k].success = (sends[k].result = "ok")
               /\ r.notificationsSent + r.failures = Len(users)
               /\ r.notificationsSent =
                     Cardinality({k \in DOMAIN sends : sends[k].result = "ok"})
               /\ r.success = (r.failures = 0)

\* the send to the first of two users failed and the second was still sent
C11_FirstFailedSecondSent ==
    \E t \in DOMAIN calls :
        /\ notified(calls[t])
        /\ Len(calls[t].notifications) = 2
        /\ ~calls[t].notifications[1].success
        /\ calls[t].notifications[2].success

\* no invocation is in its cycle for meeting m
idleFor(m) ==
    \A t \in DOMAIN calls : Running(calls[t]) => calls[t].data.meetingId # m

\* C12: when the last change event of a meeting showed an empty set of
\* external participants and nothing is running for the meeting, the list
\* holds no record of the meeting.
EmptySetClearsRecords ==
    \A m \in Meetings :
        (skipped[m] /\ idleFor(m) /\ faults = 0) => itemsOfMeeting(list, m) = << >>

\* C13: a cycle started by a change event of any kind reads the records of
\* the meeting before it sends its first notification.
EveryKindReconciles ==
    \A t \in DOMAIN calls :
        (calls[t].origin = "event" /\ opsOfKind(calls[t], "notify") # << >>)
        => calls[t].ops[1].op = "read"

\* C14: every payload sent to the notification endpoint has a notificationType
\* among created, updated and cancelled.
NotificationTypeDomain ==
    \A t \in DOMAIN calls :
        \A k \in DOMAIN calls[t].ops :
            calls[t].ops[k].op = "notify"
            => calls[t].ops[k].type \in {"created", "updated", "cancelled"}

(***************************************************************************)
(* executeWithRetry, attempt by attempt: one call at a time of a SharePoint *)
(* operation (createListItem, deleteListItem, getVisitorRecordsByMeetingId)*)
(* or of sendSingleNotification, with the answers of the remote side.      *)
(***************************************************************************)
\* SharePointService.retryConfig
spMaxRetries == 3
spRetryDelay == 1000
spBackoffMultiplier == 2

\* PowerAutomateService.retryConfig
paMaxRetries == 3
paRetryDelay == 2000
paBackoffMultiplier == 2

retryConfig(client) ==
    IF client = "sharepoint"
    THEN [maxRetries |-> spMaxRetries, retryDelay |-> spRetryDelay,
          backoffMultiplier |-> spBackoffMultiplier]
    ELSE [maxRetries |-> paMaxRetries, retryDelay |-> paRetryDelay,
          backoffMultiplier |-> paBackoffMultiplier]

RECURSIVE pow(_, _)
\* Math.pow for a natural exponent
pow(b, n) == IF n = 0 THEN 1 ELSE b * pow(b, n - 1)

\* a retry test that counts the first attempt among the maxRetries
shouldRetry_countsAttempts(client, retryCount) ==
    retryCount + 1 < retryConfig(client).maxRetries

\* executeWithRetry: if (retryCount < this.retryConfig.maxRetries)
shouldRetry(client, retryCount) == retryCount < retryConfig(client).maxRetries

\* a delay that grows by the multiplier times the retry count
delay_linear(client, retryCount) ==
    retryConfig(client).retryDelay * retryConfig(client).backoffMultiplier * retryCount

\* executeWithRetry: retryDelay * Math.pow(backoffMultiplier, retryCount)
delay(client, retryCount) ==
    retryConfig(client).retryDelay * pow(retryConfig(client).backoffMultiplier, retryCount)

\* an operation that throws on every answer that is not 2xx
throwsOn_not2xx(op, response) == response # "ok"

\* a notification that throws when the body of the response cannot be read
throwsOn_unreadable(op, response) ==
    CASE op = "remove" -> response \notin {"ok", "ok_unreadable", "not_found"}
      [] OTHER -> response # "ok"

\* the operation throws on the answer of the remote side: every operation
\* throws unless response.ok, but deleteListItem accepts a 404; then
\* createListItem and the read throw when response.json() fails, while
\* deleteListItem reads no body and sendSingleNotification catches the error
\* of reading it
throwsOn(op, response) ==
    CASE op = "remove" -> response \notin {"ok", "ok_unreadable", "not_found"}
      [] op = "notify" -> response \notin {"ok", "ok_unreadable"}
      [] OTHER -> response # "ok"

\* a catch block that throws the first error of the call
thrownError_first(r, error) == IF r.log = << >> THEN error ELSE r.log[1]

\* executeWithRetry: throw error, the error this attempt was caught with
thrownError(r, error) == error

\* executeWithRetry: the catch block
catchError(r, error) ==
    IF shouldRetry(r.client, r.retryCount)
    THEN [r EXCEPT !.status = "waiting",
                   !.log = Append(@, error),
                   !.timers = Append(@, delay(r.client, r.retryCount))]
    ELSE [r EXCEPT !.status = "thrown",
                   !.log = Append(@, error),
                   !.thrown = thrownError(r, error)]

NoResult == [response |-> "none", attempt |-> 0]
NoError == [kind |-> "none", attempt |-> 0]

\* the operations a client passes to its executeWithRetry
RetryOps(client) ==
    IF client = "sharepoint" THEN {"create", "remove", "read"} ELSE {"notify"}

\* the record ids a remove can be asked for: the ones ever issued
RetryTargets(op) == IF op = "remove" THEN 1 .. (nextId - 1) ELSE {0}

\* the next attempt of the running call is under way
attempting == retry.status = "attempting"

\* the effect of an applied request on the list
applied(r) ==
    CASE r.op = "create" ->
           /\ list' = list \cup {visitorRecord(nextId, currentMeetingData.meetingId,
                                               currentMeetingData.externalUsers[1])}
           /\ nextId' = nextId + 1
      [] r.op = "remove" ->
           /\ list' = {x \in list : x.Id # r.target}
           /\ nextId' = nextId
      [] OTHER ->
           /\ list' = list
           /\ nextId' = nextId

\* a client calls executeWithRetry(operation), retryCount = 0, and the first
\* attempt starts
callExecuteWithRetry ==
    /\ retry.status \in {"idle", "returned", "thrown"}
    /\ \E client \in {"sharepoint", "powerautomate"} :
       \E op \in RetryOps(client) :
       \E target \in RetryTargets(op) :
       \E configOk \in BOOLEAN :
           retry' = [status |-> "attempting", n |-> retry.n + 1,
                     client |-> client, op |-> op, target |-> target,
                     configOk |-> configOk, retryCount |-> 0,
                     log |-> << >>, timers |-> << >>, slept |-> << >>,
                     digests |-> << >>,
                     result |-> NoResult, thrown |-> NoError, before |-> list]
    /\ UNCHANGED <<currentMeetingData, isProcessing, loading, list, nextId, calls,
                   faults, started, unserved, skipped,
                   service, classified, addinVars>>

\* what the fetch of the request digest can end with: createListItem and
\* deleteListItem fetch one for every attempt, the other operations none
DigestAnswers(op) ==
    IF op \in {"create", "remove"} THEN {"ok", "http_error"} ELSE {"none"}

\* SharePointService.getRequestDigest: the digest of the answer, and the
\* fallback value when the fetch fails
getRequestDigest(answer) ==
    CASE answer = "ok" -> "FormDigestValue"
      [] answer = "none" -> "none"
      [] OTHER -> "dummy-digest"

\* the remote side answers the attempt: 2xx (the request is applied) with a
\* body that can be read or not, 404 to a remove of a record that is not
\* there, or an error status (not applied)
operationAnswered ==
    /\ attempting
    /\ retry.configOk
    /\ \E response \in {"ok", "ok_unreadable", "not_found", "http_error"} :
       \E digest \in DigestAnswers(retry.op) :
         /\ response \in {"ok", "ok_unreadable"} /\ retry.op = "remove"
                => \E x \in list : x.Id = retry.target
         /\ response = "not_found"
                => retry.op = "remove" /\ ~ \E x \in list : x.Id = retry.target
         /\ IF response \in {"ok", "ok_unreadable"} THEN applied(retry)
            ELSE UNCHANGED <<list, nextId>>
         /\ LET r == [retry EXCEPT !.digests = Append(@, getRequestDigest(digest))]
            IN retry' = IF throwsOn(r.op, response)
                        THEN catchError(r, [kind |-> response,
                                            attempt |-> r.retryCount + 1])
                        ELSE [r EXCEPT !.status = "returned",
                                       !.result = [response |-> response,
                                                   attempt |-> r.retryCount + 1]]
    /\ UNCHANGED <<currentMeetingData, isProcessing, loading, calls, faults,
                   started, unserved, skipped,
                   service, classified, addinVars>>

\* the attempt throws without an answer: the configuration gives no way to
\* authenticate or no address ("config", nothing is sent), or the request is
\* applied and its response is lost ("lost")
operationThrows ==
    /\ attempting
    /\ \E kind \in {"config", "lost"} :
       \E digest \in IF kind = "config" THEN {"none"} ELSE DigestAnswers(retry.op) :
         /\ kind = "config" <=> ~retry.configOk
         /\ kind = "lost" /\ retry.op = "remove"
                => \E x \in list : x.Id = retry.target
         /\ IF kind = "lost" THEN applied(retry) ELSE UNCHANGED <<list, nextId>>
         /\ retry' = catchError(
                         [retry EXCEPT !.digests = Append(@, getRequestDigest(digest))],
                         [kind |-> kind, attempt |-> retry.retryCount + 1])
    /\ UNCHANGED <<currentMeetingData, isProcessing, loading, calls, faults,
                   started, unserved, skipped,
                   service, classified, addinVars>>

\* the setTimeout of the catch block fires: executeWithRetry(operation,
\* retryCount + 1) starts the next attempt
delayElapsed ==
    /\ retry.status = "waiting"
    /\ retry' = [retry EXCEPT !.status = "attempting",
                              !.retryCount = @ + 1,
                              !.slept = Append(@, retry.timers[Len(retry.timers)])]
    /\ UNCHANGED <<currentMeetingData, isProcessing, loading, list, nextId, calls,
                   faults, started, unserved, skipped,
                   service, classified, addinVars>>

\* a list that holds one record of an earlier synchronization
InitRetry ==
    /\ \E it \in BurstItems : currentMeetingData = extractEventData(it)
    /\ isProcessing = FALSE
    /\ loading = FALSE
    /\ list = {visitorRecord(1, currentMeetingData.meetingId,
                             currentMeetingData.externalUsers[1])}
    /\ nextId = 2
    /\ calls = << >>
    /\ faults = 0
    /\ started = [m \in Meetings |-> 0]
    /\ unserved = [m \in Meetings |-> FALSE]
    /\ skipped = [m \in Meetings |-> FALSE]
    /\ retry = NoRetry
    /\ addinIdle
    /\ service = NoService
    /\ classified = NoClassified

NextRetry ==
    \/ retry.n < MaxRetryCalls /\ callExecuteWithRetry
    \/ operationAnswered
    \/ operationThrows
    \/ delayElapsed

\* an attempt under way ends (the remote side answers or the request fails)
\* and a timer that was set fires
SpecRetry ==
    /\ InitRetry
    /\ [][NextRetry]_vars
    /\ WF_vars(operationAnswered \/ operationThrows)
    /\ WF_vars(delayElapsed)

(***************************************************************************)
(* Properties of executeWithRetry.                                         *)
(***************************************************************************)
\* a call of executeWithRetry has been made
Called == retry.status # "idle"

\* the number of times the call has invoked its operation
invocations == retry.retryCount + 1

\* C15, as stated: an operation that fails on every attempt is invoked at
\* most maxRetries (3) times in total before its error is surfaced
RetryBoundTotal ==
    (Called /\ retry.status = "thrown")
        => invocations <= retryConfig(retry.client).maxRetries

\* C15, amended: an operation is invoked at most maxRetries + 1 times (the
\* first attempt and maxRetries retries), in both clients, and one that fails
\* on every attempt is invoked exactly maxRetries + 1 = 4 times before its
\* error is surfaced
RetryBound ==
    Called =>
        /\ invocations <= 4
        /\ retry.status = "thrown" =>
               /\ invocations = 4
               /\ Len(retry.log) = 4
               /\ Len(retry.slept) = 3

\* the notification client gives up after its fourth invocation
C15_FourthAttemptThrown ==
    /\ Called
    /\ retry.client = "powerautomate"
    /\ retry.status = "thrown"
    /\ retry.configOk
    /\ Len(retry.log) = 4

\* C16: an operation that fails with a configuration error (no authentication
\* method available, no connection descriptor) is invoked exactly once and
\* its error is surfaced at once, with no backoff delay and no retry
ConfigErrorNotRetried ==
    (Called /\ ~retry.configOk) =>
        /\ retry.retryCount = 0
        /\ retry.timers = << >>
        /\ retry.status \in {"attempting", "thrown"}

\* a configuration error surfaced after four invocations and three waits
C16_ConfigErrorRetried ==
    /\ Called
    /\ ~retry.configOk
    /\ retry.status = "thrown"
    /\ retry.retryCount = 3
    /\ \A i \in DOMAIN retry.log : retry.log[i].kind = "config"

\* the call has returned or thrown
Settled == retry.status \in {"returned", "thrown"}

RetryOutcome ==
    Called =>
        /\ retry.status = "returned" =>
               /\ retry.result.attempt = invocations
               /\ Len(retry.log) = retry.result.attempt - 1
               /\ retry.thrown = NoError
        /\ retry.status = "thrown" =>
               /\ retry.thrown = retry.log[Len(retry.log)]
               /\ retry.thrown.attempt = invocations
               /\ retry.result = NoResult
        /\ retry.status \notin {"returned", "thrown"} =>
               retry.result = NoResult /\ retry.thrown = NoError

\* C17: executeWithRetry always terminates; if an attempt succeeds the call
\* returns that attempt's result and the operation is not invoked again; if
\* every attempt fails the error thrown is the error of the final attempt
RetryOutcomeAndTermination ==
    /\ []RetryOutcome
    /\ [][(Settled /\ retry'.n = retry.n) => retry' = retry]_vars
    /\ (retry.status = "attempting") ~> Settled

\* a call that returned the result of its third attempt
C17_ThirdAttemptReturned ==
    /\ Called
    /\ retry.status = "returned"
    /\ retry.result.attempt = 3
    /\ retry.log[1].kind # retry.log[2].kind

\* s is an initial part of t
isPrefix(s, t) == Len(s) <= Len(t) /\ \A i \in DOMAIN s : s[i] = t[i]

\* C18: the wait before the retry that follows the i-th failed attempt
\* (0-indexed) is 1000, 2000, 4000 ms in the store client and 2000, 4000,
\* 8000 ms in the notification client, and no retry is issued before its
\* wait has elapsed
BackoffSchedule ==
    Called =>
        /\ retry.client = "sharepoint" => isPrefix(retry.timers, <<1000, 2000, 4000>>)
        /\ retry.client = "powerautomate" => isPrefix(retry.timers, <<2000, 4000, 8000>>)
        /\ isPrefix(retry.slept, retry.timers)
        /\ retry.retryCount = Len(retry.slept)
        /\ retry.status = "waiting" => Len(retry.timers) = Len(retry.slept) + 1
        /\ retry.status # "waiting" => retry.timers = retry.slept

\* the notification client starts its third retry after the three waits
C18_ThirdRetryAfterWaits ==
    /\ Called
    /\ retry.client = "powerautomate"
    /\ retry.status = "attempting"
    /\ retry.slept = <<2000, 4000, 8000>>

\* C19: a remove of a record that is absent (the remote side answers 404)
\* completes without an error and without a retry and leaves the list as it
\* was; removing the same record twice has the effect of removing it once
IdempotentRemove ==
    (Called /\ retry.op = "remove") =>
        /\ \A i \in DOMAIN retry.log : retry.log[i].kind # "not_found"
        /\ (retry.status = "returned" /\ retry.result.response = "not_found") =>
               /\ retry.thrown = NoError
               /\ retry.timers = retry.slept
               /\ (\A x \in retry.before : x.Id # retry.target) => list = retry.before
        /\ retry.status = "returned" =>
               list = {x \in retry.before : x.Id # retry.target}

\* the second remove of record 1 is answered 404 at its first attempt
C19_SecondRemove ==
    /\ Called
    /\ retry.n = 2
    /\ retry.op = "remove"
    /\ retry.target = 1
    /\ retry.before = {}
    /\ retry.status = "returned"
    /\ retry.result = [response |-> "not_found", attempt |-> 1]

\* C20: one create call, with its retries after an attempt whose write was
\* applied but whose response was lost or could not be read, leaves at most
\* one new record of the participant
IdempotentCreate ==
    (Called /\ retry.op = "create") =>
        Cardinality({x \in list \ retry.before :
                        x.VisitorEmail = currentMeetingData.externalUsers[1].emailAddress}) <= 1

\* a create call that returned after a lost response
C20_ReturnedAfterLostResponse ==
    /\ Called
    /\ retry.op = "create"
    /\ retry.status = "returned"
    /\ \E i \in DOMAIN retry.log : retry.log[i].kind = "lost"

(***************************************************************************)
(* Properties of the error handling of the clients.                        *)
(***************************************************************************)
\* the entry of the user whose send has just ended with a timeout, if any
timedOutNow(t) ==
    /\ Len(calls'[t].notifications) = Len(calls[t].notifications) + 1
    /\ calls'[t].notifications[Len(calls'[t].notifications)].error = "Request timeout"

TimeoutRecorded ==
    \A t \in DOMAIN calls :
        LET c == calls[t]
        IN /\ \A k \in DOMAIN c.notifications :
                 /\ c.notifications[k].error \in {"", "HTTP error", "Request timeout"}
                 /\ c.notifications[k].success = (c.notifications[k].error = "")
           /\ notified(c) => Len(c.notifications) = Len(c.data.externalUsers)

\* C21: a notification that gets no response within the timeout fails with a
\* timeout error for that call only: the user is recorded as failed, the
\* next user of the cycle is attempted, the cycle does not end in an error
\* and the list is left as it is.
TimeoutIsolation ==
    /\ []TimeoutRecorded
    /\ [][\A t \in DOMAIN calls :
            timedOutNow(t) =>
                /\ list' = list
                /\ calls'[t].outcome \in {"running", "ok"}
                /\ ~calls'[t].notifications[Len(calls'[t].notifications)].success
                /\ calls[t].i < Len(calls[t].data.externalUsers) =>
                       calls'[t].pc = "notify" /\ calls'[t].i = calls[t].i + 1]_vars

\* the first send of a cycle timed out, the second user was notified and the
\* records the cycle created are in the list
C21_TimeoutThenSent ==
    \E t \in DOMAIN calls :
        /\ notified(calls[t])
        /\ Len(calls[t].notifications) = 2
        /\ calls[t].notifications[1].error = "Request timeout"
        /\ calls[t].notifications[2].success
        /\ Len(opsOfKind(calls[t], "create")) = 2
        /\ Cardinality(list) = 2

(***************************************************************************)
(* One instance of PowerAutomateService or of SharePointService: its       *)
(* initialize, its testConnection and the entry of sendVisitorNotification.*)
(* The configuration the instance reads stays as it is during a run.       *)
(***************************************************************************)
\* the states of config.json: the section of the client is missing, the
\* notification URL is missing or is no URL, or the section is complete
ServiceConfigs(client) ==
    IF client = "powerautomate" THEN {"missing", "nourl", "invalidurl", "ok"}
    ELSE {"missing", "ok"}

\* what the remote side does with a request
Answers(client) ==
    IF client = "powerautomate"
    THEN {"2xx_json", "2xx_unparsable", "http_error", "network_error", "abort"}
    ELSE {"2xx_json", "2xx_unparsable", "http_error", "network_error"}

NoOutcome == [kind |-> "none", success |-> FALSE, error |-> "", statusCode |-> 0]

returned(success, error, statusCode) ==
    [kind |-> "returned", success |-> success, error |-> error, statusCode |-> statusCode]

thrown(error) ==
    [kind |-> "thrown", success |-> FALSE, error |-> error, statusCode |-> 0]

\* an initialize that does not test whether the URL can be parsed
validate_noUrlTest(cfg) ==
    CASE cfg = "missing" -> "Power Automate configuration is missing"
      [] cfg = "nourl" -> "Power Automate notification URL is required"
      [] OTHER -> ""

\* PowerAutomateService.initialize: the error its tests of the configuration
\* throw, "" when they all pass
validate(cfg) ==
    CASE cfg = "missing" -> "Power Automate configuration is missing"
      [] cfg = "nourl" -> "Power Automate notification URL is required"
      [] cfg = "invalidurl" -> "Invalid Power Automate notification URL"
      [] OTHER -> ""

\* PowerAutomateService.initialize on the instance svc: the error it throws
\* ("" when it returns) and the instance afterwards
initialized(svc) ==
    IF svc.isInitialized
    THEN [error |-> "", svc |-> svc]
    ELSE LET e == validate(svc.config)
         IN [error |-> e,
             svc |-> [svc EXCEPT !.isInitialized = (e = ""),
                                 !.validations = @ + 1]]

\* a testConnection that throws the error it caught
testConnectionCatch_rethrow(error) == thrown(error)

\* testConnection: the outer catch returns { success: false, error }
testConnectionCatch(error) == returned(FALSE, error, 0)

\* PowerAutomateService.testConnection after its fetch
paTestConnectionResult(answer) ==
    CASE answer \in {"2xx_json", "2xx_unparsable"} -> returned(TRUE, "", 200)
      [] answer = "http_error" -> returned(FALSE, "", 500)
      [] answer = "abort" -> testConnectionCatch("Connection test timeout")
      [] OTHER -> testConnectionCatch("network error")

\* SharePointService.testConnection after its fetch
spTestConnectionResult(answer) ==
    CASE answer = "2xx_json" -> returned(TRUE, "", 0)
      [] answer = "2xx_unparsable" -> testConnectionCatch("SyntaxError")
      [] answer = "http_error" -> testConnectionCatch("HTTP error! status: 500")
      [] OTHER -> testConnectionCatch("network error")

\* a call to the instance begins
begin(svc, method) ==
    [svc EXCEPT !.method = method, !.n = @ + 1, !.answer = "none",
                !.result = NoOutcome, !.changeType = "none",
                !.notificationType = "none"]

serviceIdle(client) ==
    /\ service.pc = "idle"
    /\ service.client = client

serviceRest ==
    UNCHANGED <<currentMeetingData, isProcessing, loading, list, nextId, calls,
                faults, started, unserved, skipped, retry, classified, addinVars>>

\* PowerAutomateService.initialize, called by itself
initialize ==
    /\ serviceIdle("powerautomate")
    /\ LET r == initialized(begin(service, "initialize"))
       IN service' = [r.svc EXCEPT !.result = IF r.error = "" THEN returned(TRUE, "", 0)
                                              ELSE thrown(r.error)]
    /\ serviceRest

\* PowerAutomateService.testConnection, up to its fetch
paTestConnection ==
    /\ serviceIdle("powerautomate")
    /\ LET r == initialized(begin(service, "testConnection"))
       IN service' = IF r.error # ""
                     THEN [r.svc EXCEPT !.result = testConnectionCatch(r.error)]
                     ELSE [r.svc EXCEPT !.pc = "fetch", !.requests = @ + 1]
    /\ serviceRest

\* SharePointService.testConnection, up to its fetch: reading the missing
\* configuration throws a TypeError, getAccessToken throws without a token
spTestConnection ==
    /\ serviceIdle("sharepoint")
    /\ LET svc == begin(service, "testConnection")
       IN service' =
            IF svc.config = "missing"
            THEN [svc EXCEPT !.result = testConnectionCatch("TypeError")]
            ELSE IF ~svc.tokenOk
            THEN [svc EXCEPT !.result =
                      testConnectionCatch("No authentication method available")]
            ELSE [svc EXCEPT !.pc = "fetch", !.requests = @ + 1]
    /\ serviceRest

\* the fetch of testConnection ends
testConnectionAnswered ==
    /\ service.pc = "fetch"
    /\ service.method = "testConnection"
    /\ \E answer \in Answers(service.client) :
         service' = [service EXCEPT
                        !.pc = "idle",
                        !.answer = answer,
                        !.result = IF service.client = "powerautomate"
                                   THEN paTestConnectionResult(answer)
                                   ELSE spTestConnectionResult(answer)]
    /\ serviceRest

\* PowerAutomateService.sendVisitorNotification, up to the first request:
\* the error of initialize is thrown again by the outer catch
sendVisitorNotification ==
    /\ serviceIdle("powerautomate")
    /\ \E users \in {0, 1} :
         LET r == initialized(begin(service, "sendVisitorNotification"))
         IN service' =
              IF r.error # "" THEN [r.svc EXCEPT !.result = thrown(r.error)]
              ELSE IF users = 0 THEN [r.svc EXCEPT !.result = returned(TRUE, "", 0)]
              ELSE [r.svc EXCEPT !.pc = "fetch", !.requests = @ + 1]
    /\ serviceRest

\* the change types a caller passes: those OutlookEventService raises, the
\* 'manual' of the taskpane, and strings that are none of these
ChangeTypes ==
    {"recipients_changed", "subject_changed", "time_changed",
     "appointment_changed", "created", "deleted", "manual", "", "constructor"}

\* the names every object literal inherits from Object.prototype
ObjectPrototypeKeys ==
    {"constructor", "toString", "valueOf", "hasOwnProperty", "__proto__"}

\* mapping[changeType]: the own property, else the inherited one (a function
\* or an object), else undefined
mapping(changeType) ==
    CASE changeType \in {"recipients_changed", "subject_changed", "time_changed",
                         "appointment_changed"} -> "updated"
      [] changeType = "created" -> "created"
      [] changeType = "deleted" -> "cancelled"
      [] changeType \in ObjectPrototypeKeys -> "[inherited]"
      [] OTHER -> "undefined"

\* mapping[changeType] || 'updated'
mapChangeTypeToNotification(changeType) ==
    IF mapping(changeType) = "undefined" THEN "updated" ELSE mapping(changeType)

\* PowerAutomateService.sendMeetingUpdateNotification: the change type is
\* mapped and sendVisitorNotification is called with the result; an error is
\* logged and thrown again
sendMeetingUpdateNotification ==
    /\ serviceIdle("powerautomate")
    /\ \E users \in {0, 1}, changeType \in ChangeTypes :
         LET svc == [begin(service, "sendMeetingUpdateNotification") EXCEPT
                        !.changeType = changeType,
                        !.notificationType = mapChangeTypeToNotification(changeType)]
             r == initialized(svc)
         IN service' =
              IF r.error # "" THEN [r.svc EXCEPT !.result = thrown(r.error)]
              ELSE IF users = 0 THEN [r.svc EXCEPT !.result = returned(TRUE, "", 0)]
              ELSE [r.svc EXCEPT !.pc = "fetch", !.requests = @ + 1]
    /\ serviceRest

\* sendVisitorNotification returns: its one user was notified, or
\* sendSingleNotification threw after its retries
sendVisitorNotificationAnswered ==
    /\ service.pc = "fetch"
    /\ service.method \in {"sendVisitorNotification", "sendMeetingUpdateNotification"}
    /\ \E answer \in Answers(service.client) :
         service' = [service EXCEPT
                        !.pc = "idle",
                        !.answer = answer,
                        !.result = returned(answer \in {"2xx_json", "2xx_unparsable"},
                                            "", 0)]
    /\ serviceRest

\* a new instance of a client
InitService ==
    /\ \E it \in BurstItems : currentMeetingData = extractEventData(it)
    /\ isProcessing = FALSE
    /\ loading = FALSE
    /\ list = {}
    /\ nextId = 1
    /\ calls = << >>
    /\ faults = 0
    /\ started = [m \in Meetings |-> 0]
    /\ unserved = [m \in Meetings |-> FALSE]
    /\ skipped = [m \in Meetings |-> FALSE]
    /\ retry = NoRetry
    /\ addinIdle
    /\ classified = NoClassified
    /\ \E client \in {"powerautomate", "sharepoint"} :
       \E cfg \in ServiceConfigs(client) :
       \E tokenOk \in BOOLEAN :
           service = [pc |-> "idle", client |-> client, config |-> cfg,
                      tokenOk |-> tokenOk, isInitialized |-> FALSE,
                      method |-> "none", n |-> 0, requests |-> 0,
                      validations |-> 0, answer |-> "none", result |-> NoOutcome,
                      changeType |-> "none", notificationType |-> "none"]

NextService ==
    \/ service.n < MaxServiceCalls /\ initialize
    \/ service.n < MaxServiceCalls /\ paTestConnection
    \/ service.n < MaxServiceCalls /\ spTestConnection
    \/ service.n < MaxServiceCalls /\ sendVisitorNotification
    \/ service.n < MaxServiceCalls /\ sendMeetingUpdateNotification
    \/ testConnectionAnswered
    \/ sendVisitorNotificationAnswered

SpecService == InitService /\ [][NextService]_vars

(***************************************************************************)
(* Properties of a client instance.                                        *)
(***************************************************************************)
\* the call `method` to the instance has ended
ended(method) == service.pc = "idle" /\ service.method = method

\* C22: testConnection of both clients never throws: whatever fails
\* (configuration, token, network, timeout, error status), it returns a
\* result with success = false that carries the error or the status, and it
\* returns success = true only when the remote side answered with a success
\* status.
TestConnectionNeverThrows ==
    ended("testConnection") =>
        /\ service.result.kind = "returned"
        /\ service.result.success => service.answer \in {"2xx_json", "2xx_unparsable"}
        /\ service.answer \in {"none", "http_error", "network_error", "abort"}
               => ~service.result.success
        /\ ~service.result.success
               => service.result.error # "" \/ service.result.statusCode >= 400

\* the SharePoint test found no way to get a token and returned the failure
C22_TokenFailureReturned ==
    /\ ended("testConnection")
    /\ service.client = "sharepoint"
    /\ service.config = "ok"
    /\ ~service.tokenOk
    /\ service.result = returned(FALSE, "No authentication method available", 0)

\* C28: a configuration error at initialization is fatal to the instance of
\* PowerAutomateService: initialize validates once per call and throws when
\* the configuration is missing or its URL is missing or invalid, leaving
\* isInitialized false; isInitialized is true only after the validation
\* passed; sendVisitorNotification and testConnection issue no HTTP request
\* on an instance whose initialization failed.
InitializationFatal ==
    (service.pc # "none" /\ service.client = "powerautomate") =>
        /\ service.isInitialized => service.config = "ok" /\ service.validations = 1
        /\ service.validations <= service.n
        /\ service.config # "ok" =>
               /\ ~service.isInitialized
               /\ service.requests = 0
               /\ service.pc = "idle"
               /\ service.validations = service.n
               /\ service.method = "initialize" => service.result.kind = "thrown"
               /\ service.method = "sendVisitorNotification" =>
                      service.result.kind = "thrown"
               /\ service.method = "testConnection" =>
                      service.result.kind = "returned" /\ ~service.result.success

\* sendVisitorNotification was called twice on an instance whose URL is
\* invalid and threw the configuration error without a request
C28_InvalidUrlNoRequest ==
    /\ ended("sendVisitorNotification")
    /\ service.client = "powerautomate"
    /\ service.config = "invalidurl"
    /\ service.n = 2
    /\ service.requests = 0
    /\ service.result = thrown("Invalid Power Automate notification URL")

(***************************************************************************)
(* OutlookEventService.extractEventData reading the attendees of one item: *)
(* the callbacks of requiredAttendees.getAsync and                         *)
(* optionalAttendees.getAsync push what they got to allAttendees, and the  *)
(* last of them runs checkCompletion, which calls filterExternalUsers.     *)
(***************************************************************************)
\* a room of another organisation, and a domain written in capitals
room1_ext == <<"r", "o", "o", "m", "1", "@", "e", "x", "t">>
INT == <<"I", "N", "T">>

\* the attendees an item can have; the last has no e-mail address
AttendeePool ==
    {Attendee(a_ext), Attendee(A_ext), Attendee(b_int), Attendee(room1_ext),
     Attendee(<< >>)}

\* the values of outlook.internalDomains
DomainLists == { << >>, << <<"i", "n", "t">> >>, << INT >> }

SeqsUpTo(S, n) == UNION {[1 .. k -> S] : k \in 0 .. n}

\* the callback of one of the two getAsync calls: its attendees are pushed,
\* and checkCompletion filters when the other callback has run already
attendeesRead(which, got) ==
    LET all == classified.allAttendees \o got
        last == classified.pending = {which}
    IN /\ which \in classified.pending
       /\ classified' =
            [classified EXCEPT
                !.pending = @ \ {which},
                !.allAttendees = all,
                !.pc = IF last THEN "done" ELSE "read",
                !.externalUsers =
                    IF last
                    THEN filterExternalUsersWith(
                             [internalDomains |-> classified.internalDomains,
                              excludeRooms |-> classified.excludeRooms], all)
                    ELSE @]
       /\ UNCHANGED <<currentMeetingData, isProcessing, loading, list, nextId,
                      calls, faults, started, unserved, skipped, retry, service, addinVars>>

requiredAttendeesRead == attendeesRead("required", classified.required)

optionalAttendeesRead == attendeesRead("optional", classified.optional)

\* an item with its attendees and a configuration
InitClassify ==
    /\ \E it \in BurstItems : currentMeetingData = extractEventData(it)
    /\ isProcessing = FALSE
    /\ loading = FALSE
    /\ list = {}
    /\ nextId = 1
    /\ calls = << >>
    /\ faults = 0
    /\ started = [m \in Meetings |-> 0]
    /\ unserved = [m \in Meetings |-> FALSE]
    /\ skipped = [m \in Meetings |-> FALSE]
    /\ retry = NoRetry
    /\ addinIdle
    /\ service = NoService
    /\ \E required \in SeqsUpTo(AttendeePool, MaxAttendees) :
       \E optional \in SeqsUpTo(AttendeePool, 1) :
       \E internalDomains \in DomainLists :
       \E excludeRooms \in BOOLEAN :
           classified = [pc |-> "read", required |-> required, optional |-> optional,
                         internalDomains |-> internalDomains,
                         excludeRooms |-> excludeRooms,
                         pending |-> {"required", "optional"},
                         allAttendees |-> << >>, externalUsers |-> << >>]

NextClassify ==
    \/ requiredAttendeesRead
    \/ optionalAttendeesRead

SpecClassify == InitClassify /\ [][NextClassify]_vars

(***************************************************************************)
(* Properties of the classification of attendees.                          *)
(***************************************************************************)
\* the classification of the item has been made
Classified == classified.pc = "done"

\* the address ends with @d, letter case apart
inDomain(email, d) ==
    LET suffix == <<"@">> \o d
        off == Len(email) - Len(suffix)
    IN /\ off >= 0
       /\ \A j \in 1 .. Len(suffix) : LowerChar(email[off + j]) = LowerChar(suffix[j])

\* the attendee is a user of another organisation under the domains ds
isExternal(attendee, ds) ==
    /\ attendee.emailAddress # << >>
    /\ ~ \E k \in DOMAIN ds : inDomain(attendee.emailAddress, ds[k])
    /\ ~isRoomEmail(attendee.emailAddress)

Deduplication ==
    Classified =>
        \A i, j \in DOMAIN classified.externalUsers :
            i # j => toLowerCase(classified.externalUsers[i].emailAddress)
                        # toLowerCase(classified.externalUsers[j].emailAddress)

\* an address that is required and optional attendee was classified
C24_RequiredAndOptional ==
    /\ Classified
    /\ classified.required = << Attendee(a_ext) >>
    /\ classified.optional = << Attendee(A_ext) >>

\* C25: outlook.excludeRooms controls the filtering of rooms: a room address
\* is left out when the flag is true, and is not left out on that ground
\* when the flag is false.
ExcludeRoomsFlag ==
    Classified =>
        \A k \in DOMAIN classified.allAttendees :
            LET a == classified.allAttendees[k]
                kept == \E j \in DOMAIN classified.externalUsers :
                            classified.externalUsers[j] = a
                internal == \E d \in DOMAIN classified.internalDomains :
                                inDomain(a.emailAddress, classified.internalDomains[d])
            IN (a.emailAddress # << >> /\ isRoomEmail(a.emailAddress)) =>
                   IF classified.excludeRooms THEN ~kept ELSE (kept <=> ~internal)

\* a room of another organisation was classified with excludeRooms false
C25_RoomWithFlagOff ==
    /\ Classified
    /\ ~classified.excludeRooms
    /\ classified.allAttendees = << Attendee(room1_ext) >>

(***************************************************************************)
(* Properties of the answers of the notification endpoint.                 *)
(***************************************************************************)
\* C26: a 2xx answer of the notification endpoint is a delivery whatever its
\* content type and whether or not its body can be read: the call returns
\* success on that attempt and no retry follows.
SuccessWhateverBody ==
    (Called /\ retry.op = "notify") =>
        /\ \A i \in DOMAIN retry.log : retry.log[i].kind \notin {"ok", "ok_unreadable"}
        /\ retry.status = "returned" =>
               /\ retry.result.response \in {"ok", "ok_unreadable"}
               /\ retry.result.attempt = invocations
               /\ retry.timers = retry.slept
               /\ retry.thrown = NoError

\* the first attempt of a notification was answered 2xx with a body that
\* cannot be read, and the call returned
C26_UnreadableBodyReturned ==
    /\ Called
    /\ retry.op = "notify"
    /\ retry.status = "returned"
    /\ retry.result = [response |-> "ok_unreadable", attempt |-> 1]
    /\ retry.log = << >>

(***************************************************************************)
(* Properties of the reporting of failures.                                *)
(***************************************************************************)
\* C27: no failure of a remote call is dropped: a request digest that could
\* not be fetched is an error of the attempt that needed it (it is raised,
\* and so retried or thrown to the caller), and is never replaced by a
\* fallback value.
NoFailureDropped ==
    Called =>
        \A i \in DOMAIN retry.digests :
            retry.digests[i] = "dummy-digest" =>
                /\ i \in DOMAIN retry.log
                /\ retry.log[i].kind = "digest"

\* a create returned at its first attempt although the digest was not fetched
C27_CreatedWithDummyDigest ==
    /\ Called
    /\ retry.op = "create"
    /\ retry.status = "returned"
    /\ retry.digests = << "dummy-digest" >>
    /\ retry.thrown = NoError

(***************************************************************************)
(* The cycles of one meeting under the assumption that every remote call   *)
(* ends: the remote side answers, or executeWithRetry gives up after its   *)
(* last retry, and the await of the caller resumes.                        *)
(***************************************************************************)
\* the remote call the invocation t is suspended at ends
remoteCallEnds(t) ==
    /\ t \in DOMAIN calls
    /\ \/ getVisitorRecordsByMeetingId(t)
       \/ deleteListItem(t)
       \/ createListItem(t)
       \/ sendSingleNotification(t)
       \/ executeWithRetry(t)
       \/ refreshStatistics(t)

InitRun == Start(BurstItems)

NextRun ==
    \/ Len(calls) < MaxRun /\ handleRecipientsChanged(BurstItems)
    \/ Len(calls) < MaxRun /\ handleSubjectChanged(BurstItems)
    \/ Len(calls) < MaxRun /\ handleTimeChanged(BurstItems)
    \/ Len(calls) < MaxRun /\ handleAppointmentChanged(BurstItems)
    \/ Len(calls) < MaxRun /\ handleProcessVisitors
    \/ Len(calls) < MaxRun /\ quickProcessVisitors(BurstItems)
    \/ \E t \in DOMAIN calls : getVisitorRecordsByMeetingId(t)
    \/ \E t \in DOMAIN calls : deleteListItem(t)
    \/ \E t \in DOMAIN calls : createListItem(t)
    \/ \E t \in DOMAIN calls : sendSingleNotification(t)
    \/ \E t \in DOMAIN calls : executeWithRetry(t)
    \/ \E t \in DOMAIN calls : refreshStatistics(t)
    \/ \E t \in DOMAIN calls : refreshMeetingInfo(t, BurstItems)

SpecRun ==
    /\ InitRun
    /\ [][NextRun]_vars
    /\ \A t \in 1 .. MaxRun : WF_vars(remoteCallEnds(t))

(***************************************************************************)
(* Properties of the in-flight state of the taskpane.                      *)
(***************************************************************************)
\* the taskpane invocations whose cycle is in flight
inFlight == {t \in DOMAIN calls : Taskpane(calls[t]) /\ Running(calls[t])}

\* the invocation made by this step, if it was rejected by the guard
rejectedNow ==
    /\ Len(calls') = Len(calls) + 1
    /\ calls'[Len(calls')].outcome = "rejected"

\* when no cycle of the taskpane is in flight, the flag and the loading
\* indicator are off
Released == inFlight = {} => (~isProcessing /\ ~loading)

\* C29: a cycle that started is never cancelled and always ends; on every
\* way out (success, return because there is no external user, error after
\* the retries) the in-flight state is released, so that a trigger that
\* comes when no cycle is in flight is never rejected as busy.
RunToCompletion ==
    /\ []Released
    /\ [][\A t \in DOMAIN calls :
            Running(calls[t]) =>
                \/ Running(calls'[t])
                \/ calls'[t].outcome \in {"ok", "error"}]_vars
    /\ [][rejectedNow => inFlight # {}]_vars
    /\ \A t \in 1 .. MaxRun :
           (t \in DOMAIN calls /\ Running(calls[t]))
               ~> (t \in DOMAIN calls /\ ~Running(calls[t]))

\* a cycle ended in an error and the next trigger started a cycle
C29_StartedAfterError ==
    \E t, u \in DOMAIN calls :
        /\ t < u
        /\ Taskpane(calls[t]) /\ calls[t].outcome = "error"
        /\ Taskpane(calls[u]) /\ Running(calls[u])
        /\ calls[u].runningAtCall = {}
        /\ isProcessing

\* C30: isProcessing is true in every state in which a cycle of
\* processVisitors is between its start and its completion, and a call that
\* is rejected because a cycle is in flight issues no remote call and leaves
\* isProcessing and the loading indicator as they are.
InFlightFlag ==
    /\ [](inFlight # {} => isProcessing)
    /\ [][rejectedNow =>
            /\ isProcessing' = isProcessing
            /\ loading' = loading
            /\ calls'[Len(calls')].ops = << >>]_vars

\* a call was rejected, and the flag is off while the first cycle is in flight
C30_FlagOffInFlight ==
    \E t, u \in DOMAIN calls :
        /\ t < u
        /\ t \in inFlight
        /\ calls[u].outcome = "rejected"
        /\ ~isProcessing
        /\ ~loading


(***************************************************************************)
(* Self-healing: a pass that stopped at an error after some of its writes, *)
(* followed by a pass for the same meeting with the same snapshot.         *)
(***************************************************************************)
\* the removes and creates of invocation c that were applied to the list
appliedWrites(c) ==
    SelectSeq(c.ops, LAMBDA e : e.op \in {"remove", "create"} /\ e.result = "ok")

\* invocation u is the pass that follows a pass for the same meeting and the
\* same snapshot which failed partway; u ran alone and completed without error
Healing(u) ==
    /\ u > 1
    /\ Alone(u)
    /\ calls[u - 1].mode = "update"
    /\ calls[u - 1].outcome = "error"
    /\ appliedWrites(calls[u - 1]) # << >>
    /\ calls[u].mode = "update"
    /\ calls[u].outcome = "ok"
    /\ calls[u].data = calls[u - 1].data

\* C32: the pass that follows a pass which failed partway, for the same
\* meeting and the same snapshot, alone and without error, leaves exactly
\* one record per external participant (mailbox) of the snapshot, and no
\* record that was in the list before it started.
SelfHealing ==
    \A u \in DOMAIN calls :
        Healing(u)
        => LET emails == Range(userEmails(calls[u].data.externalUsers))
               recs == calls[u].finalRecords
           IN /\ Len(recs) = Cardinality(emails)
              /\ \A e \in emails : \E k \in DOMAIN recs : recordEmails(recs)[k] = e
              /\ Range(recordIds(recs)) \cap Range(recordIds(calls[u].existingRecords)) = {}

\* the pass after a pass that failed partway has completed: a record of the
\* failed pass was in the list when it started
C32_HealedAfterPartialFailure ==
    \E u \in DOMAIN calls :
        /\ Healing(u)
        /\ calls[u].existingRecords # << >>
        /\ opsOfKind(calls[u - 1], "create") # << >>


(***************************************************************************)
(* The mapping of change types to notification types.                      *)
(***************************************************************************)
\* C34: mapChangeTypeToNotification maps recipients_changed, subject_changed,
\* time_changed and appointment_changed to 'updated', 'created' to 'created',
\* 'deleted' to 'cancelled' and every other input to 'updated'; the result
\* is always one of created, updated, cancelled.
ChangeTypeMapping ==
    service.pc # "none" /\ service.method = "sendMeetingUpdateNotification"
    => /\ service.notificationType =
            CASE service.changeType \in {"recipients_changed", "subject_changed",
                                         "time_changed", "appointment_changed"}
                    -> "updated"
              [] service.changeType = "created" -> "created"
              [] service.changeType = "deleted" -> "cancelled"
              [] OTHER -> "updated"
       /\ service.notificationType \in {"created", "updated", "cancelled"}

\* a change type that names a member of Object.prototype was mapped
C34_InheritedNameMapped ==
    /\ service.pc # "none"
    /\ service.method = "sendMeetingUpdateNotification"
    /\ service.changeType = "constructor"


(***************************************************************************)
(* One call of OutlookEventService.extractEventData on an appointment. The *)
(* executor of the promise issues the sub-fetches one after the other; the *)
(* host runs the callback of a getAsync either inside the call or in a     *)
(* later task. The caller that awaits the promise resumes in a microtask,  *)
(* that is after the executor has returned and before any later task.      *)
(***************************************************************************)
\* the properties of the item the executor tests, in the order it tests them
Fields == <<"subject", "start", "end", "requiredAttendees", "optionalAttendees">>

\* the values an attendee property gives
AttendeeValues == { << Attendee(a_ext) >>, << Attendee(b_int) >> }

\* the call has gone through all the properties of the item
executorReturned == extraction.next > Len(Fields)

\* checkCompletion: filter and resolve when the two counters are equal
checkCompletion(e) ==
    IF e.completedOperations = e.pendingOperations
    THEN [e EXCEPT !.externalUsers = filterExternalUsers(e.allAttendees),
                   !.resolves = Append(@, [issued |-> e.issued,
                                           completed |-> e.completed])]
    ELSE e

\* the callback of field.getAsync with the result of the host
callback(e, field, succeeded) ==
    checkCompletion(
        [e EXCEPT !.allAttendees =
                      IF succeeded /\ field \in DOMAIN e.value
                      THEN @ \o e.value[field] ELSE @,
                  !.completed = @ \cup {field},
                  !.outstanding = @ \ {field},
                  !.completedOperations = @ + 1])

\* if (pendingOperations === 0) resolve(eventData), at the end of the executor
resolveIfNone(e) ==
    IF e.next > Len(Fields) /\ e.pendingOperations = 0
    THEN [e EXCEPT !.resolves = Append(@, [issued |-> e.issued,
                                           completed |-> e.completed])]
    ELSE e

extractionRest ==
    UNCHANGED <<currentMeetingData, isProcessing, loading, list, nextId, calls,
                faults, started, unserved, skipped, retry, service, classified,
                fanout, command, history>>

\* the executor at the next property of the item: if the item has it, the
\* counter of pending operations goes up and getAsync is called; the host
\* runs the callback at once or keeps it for a later task
getAsync ==
    /\ extraction.pc = "running"
    /\ ~executorReturned
    /\ LET field == Fields[extraction.next]
           e == [extraction EXCEPT !.next = @ + 1]
       IN IF field \notin extraction.present
          THEN extraction' = resolveIfNone(e)
          ELSE LET issued == [e EXCEPT !.pendingOperations = @ + 1,
                                       !.issued = @ \cup {field}]
               IN \E atOnce \in BOOLEAN, succeeded \in BOOLEAN :
                     extraction' =
                         resolveIfNone(
                             IF atOnce
                             THEN callback(issued, field, succeeded)
                             ELSE [issued EXCEPT !.outstanding = @ \cup {field}])
    /\ extractionRest

\* a later task of the host: the callback of a getAsync that is outstanding
getAsyncCallback ==
    /\ extraction.pc = "running"
    /\ executorReturned
    /\ extraction.resolves # << >> => extraction.awaited
    /\ \E field \in extraction.outstanding, succeeded \in BOOLEAN :
          extraction' = callback(extraction, field, succeeded)
    /\ extractionRest

\* the caller of `await this.extractEventData(item)` resumes with eventData
awaitResumed ==
    /\ extraction.pc = "running"
    /\ executorReturned
    /\ extraction.resolves # << >>
    /\ ~extraction.awaited
    /\ extraction' = [extraction EXCEPT
                         !.awaited = TRUE,
                         !.seen = [allAttendees |-> extraction.allAttendees,
                                   externalUsers |-> extraction.externalUsers,
                                   outstanding |-> extraction.outstanding]]
    /\ extractionRest

\* extractEventData has been called on an appointment
InitExtract ==
    /\ \E it \in BurstItems : currentMeetingData = extractEventData(it)
    /\ isProcessing = FALSE
    /\ loading = FALSE
    /\ list = {}
    /\ nextId = 1
    /\ calls = << >>
    /\ faults = 0
    /\ started = [m \in Meetings |-> 0]
    /\ unserved = [m \in Meetings |-> FALSE]
    /\ skipped = [m \in Meetings |-> FALSE]
    /\ retry = NoRetry
    /\ service = NoService
    /\ classified = NoClassified
    /\ fanout = NoFanout
    /\ command = NoCommand
    /\ history = NoHistory
    /\ \E present \in SUBSET Range(Fields) :
       \E required \in AttendeeValues, optional \in AttendeeValues :
           extraction =
               [pc |-> "running", present |-> present, next |-> 1,
                value |-> [requiredAttendees |-> required,
                           optionalAttendees |-> optional],
                pendingOperations |-> 0, completedOperations |-> 0,
                issued |-> {}, completed |-> {}, outstanding |-> {},
                allAttendees |-> << >>, externalUsers |-> << >>,
                resolves |-> << >>, awaited |-> FALSE,
                seen |-> [allAttendees |-> << >>, externalUsers |-> << >>,
                          outstanding |-> {}]]

NextExtract ==
    \/ getAsync
    \/ getAsyncCallback
    \/ awaitResumed

SpecExtract == InitExtract /\ [][NextExtract]_vars

(***************************************************************************)
(* Properties of the join of the sub-fetches.                              *)
(***************************************************************************)
\* C31: extractEventData resolves its promise exactly once, and only after
\* every sub-fetch it issues (one per property the item has) has been issued
\* and has completed, so that the caller resumes with the external users of
\* the complete attendee list; whenever the host runs the callbacks.
SnapshotJoin ==
    extraction.pc = "running"
    => /\ Len(extraction.resolves) <= 1
       /\ \A k \in DOMAIN extraction.resolves :
             /\ extraction.resolves[k].issued = extraction.present
             /\ extraction.resolves[k].completed = extraction.present
       /\ executorReturned /\ extraction.outstanding = {}
             => Len(extraction.resolves) = 1
       /\ extraction.awaited
             => /\ extraction.seen.outstanding = {}
                /\ extraction.seen.externalUsers =
                       filterExternalUsers(extraction.seen.allAttendees)

\* the caller has resumed while a sub-fetch was still outstanding: the first
\* callback ran inside its getAsync, before the later sub-fetches were issued
C31_ResumedBeforeAttendees ==
    /\ extraction.pc = "running"
    /\ extraction.awaited
    /\ "requiredAttendees" \in extraction.seen.outstanding
    /\ extraction.seen.externalUsers = << >>
    /\ extraction.value.requiredAttendees = << Attendee(a_ext) >>

(***************************************************************************)
(* The listeners of OutlookEventService: eventHandlers maps an event type  *)
(* to the array of its listeners. processEventChange walks the array of    *)
(* the change type and then the array of 'all' with for...of, which reads  *)
(* the array anew at every step, and awaits every listener; while it       *)
(* awaits, listeners are added and removed and the service is disposed. An *)
(* event type without an entry behaves as one with an empty array.         *)
(* registrations counts, for every event type and listener, the calls of   *)
(* addEventListener not yet undone by removeEventListener or dispose.      *)
(***************************************************************************)
Listeners == {"h1", "h2"}

\* the change types processEventChange is called with
ListenedChanges == {"recipients_changed", "time_changed"}

EventTypes == ListenedChanges \cup {"all"}

\* the event types whose listeners processEventChange calls, in this order
fanoutKeys_allFirst(changeType) == <<"all", changeType>>

fanoutKeys(changeType) == <<changeType, "all">>

\* the array the loop of processEventChange is walking: the one it took from
\* the map, which dispose has left as it was when it cleared the map
handlersOf(f) ==
    IF f.live THEN f.eventHandlers[fanoutKeys(f.changeType)[f.k]] ELSE f.frozen

RECURSIVE advance(_)
\* processEventChange up to its next await: the next listener of the array
\* is called, the loop over 'all' follows the loop over the change type, and
\* the method returns after it
advance(f) ==
    IF f.idx < Len(handlersOf(f))
    THEN [f EXCEPT !.idx = @ + 1,
                   !.pc = "awaiting",
                   !.invoked = Append(@, [handler |-> handlersOf(f)[f.idx + 1],
                                          key |-> fanoutKeys(f.changeType)[f.k]])]
    ELSE IF f.k < Len(fanoutKeys(f.changeType))
    THEN advance([f EXCEPT !.k = @ + 1, !.idx = 0, !.live = TRUE])
    ELSE [f EXCEPT !.pc = "idle", !.outcome = "returned"]

\* handlers.splice(handlers.indexOf(handler), 1)
spliceFirst(handlers, handler) ==
    IF \E k \in DOMAIN handlers : handlers[k] = handler
    THEN LET index == CHOOSE k \in DOMAIN handlers :
                          /\ handlers[k] = handler
                          /\ \A j \in 1 .. k - 1 : handlers[j] # handler
         IN SubSeq(handlers, 1, index - 1) \o SubSeq(handlers, index + 1, Len(handlers))
    ELSE handlers

\* a call that changes the registry; it disturbs the event being processed
registryCall(f) ==
    [f EXCEPT !.registryCalls = @ + 1,
              !.disturbed = @ \/ f.pc = "awaiting"]

fanoutRest ==
    UNCHANGED <<currentMeetingData, isProcessing, loading, list, nextId, calls,
                faults, started, unserved, skipped, retry, service, classified,
                extraction, command, history>>

\* OutlookEventService.processEventChange is called and runs to its first await
processEventChangeCalled ==
    /\ fanout.pc = "idle"
    /\ fanout.events < MaxEvents
    /\ \E changeType \in ListenedChanges :
          fanout' = advance([fanout EXCEPT
                                !.events = @ + 1,
                                !.changeType = changeType,
                                !.k = 1, !.idx = 0, !.live = TRUE,
                                !.invoked = << >>,
                                !.outcome = "none",
                                !.disturbed = FALSE,
                                !.atStart = fanout.eventHandlers])
    /\ fanoutRest

\* the listener awaited returns (its promise is fulfilled): the loop goes on
listenerReturned ==
    /\ fanout.pc = "awaiting"
    /\ fanout' = advance(fanout)
    /\ fanoutRest

\* the listener awaited throws: processEventChange logs the error and throws
\* it again; no further listener is called
listenerThrew ==
    /\ fanout.pc = "awaiting"
    /\ fanout' = [fanout EXCEPT !.pc = "idle", !.outcome = "thrown"]
    /\ fanoutRest

addEventListener ==
    /\ fanout.pc # "none"
    /\ fanout.registryCalls < MaxRegistryCalls
    /\ \E eventType \in EventTypes, handler \in Listeners :
          /\ Len(fanout.eventHandlers[eventType]) < MaxListeners
          /\ fanout' = [registryCall(fanout) EXCEPT
                           !.eventHandlers[eventType] = Append(@, handler),
                           !.registrations[eventType][handler] = @ + 1]
    /\ fanoutRest

removeEventListener ==
    /\ fanout.pc # "none"
    /\ fanout.registryCalls < MaxRegistryCalls
    /\ \E eventType \in EventTypes, handler \in Listeners :
          fanout' = [registryCall(fanout) EXCEPT
                        !.eventHandlers[eventType] = spliceFirst(@, handler),
                        !.registrations[eventType][handler] =
                            IF @ > 0 THEN @ - 1 ELSE 0]
    /\ fanoutRest

\* OutlookEventService.dispose: eventHandlers.clear()
dispose ==
    /\ fanout.pc # "none"
    /\ fanout.registryCalls < MaxRegistryCalls
    /\ fanout' = [registryCall(fanout) EXCEPT
                     !.eventHandlers = [t \in EventTypes |-> << >>],
                     !.registrations = [t \in EventTypes |-> [h \in Listeners |-> 0]],
                     !.live = FALSE,
                     !.frozen = IF fanout.pc = "awaiting" THEN handlersOf(fanout)
                                ELSE << >>]
    /\ fanoutRest

\* a new OutlookEventService: no listener is registered
InitFanout ==
    /\ \E it \in BurstItems : currentMeetingData = extractEventData(it)
    /\ isProcessing = FALSE
    /\ loading = FALSE
    /\ list = {}
    /\ nextId = 1
    /\ calls = << >>
    /\ faults = 0
    /\ started = [m \in Meetings |-> 0]
    /\ unserved = [m \in Meetings |-> FALSE]
    /\ skipped = [m \in Meetings |-> FALSE]
    /\ retry = NoRetry
    /\ service = NoService
    /\ classified = NoClassified
    /\ extraction = NoExtraction
    /\ command = NoCommand
    /\ history = NoHistory
    /\ fanout = [pc |-> "idle",
                 eventHandlers |-> [t \in EventTypes |-> << >>],
                 registrations |-> [t \in EventTypes |-> [h \in Listeners |-> 0]],
                 events |-> 0, registryCalls |-> 0,
                 changeType |-> "recipients_changed", k |-> 1, idx |-> 0,
                 live |-> FALSE, frozen |-> << >>,
                 invoked |-> << >>, outcome |-> "none",
                 disturbed |-> FALSE,
                 atStart |-> [t \in EventTypes |-> << >>]]

NextFanout ==
    \/ processEventChangeCalled
    \/ listenerReturned
    \/ listenerThrew
    \/ addEventListener
    \/ removeEventListener
    \/ dispose

SpecFanout == InitFanout /\ [][NextFanout]_vars

(***************************************************************************)
(* Properties of the fan-out to the listeners.                             *)
(***************************************************************************)
\* the listeners of one event type as entries of the log of invocations
entriesOf(handlers, key) ==
    [k \in DOMAIN handlers |-> [handler |-> handlers[k], key |-> key]]

\* the invocations an event makes with the listeners registered when
\* processEventChange was called: those of the change type in registration
\* order, then those of 'all' in registration order
expectedInvocations ==
    entriesOf(fanout.atStart[fanout.changeType], fanout.changeType)
        \o entriesOf(fanout.atStart["all"], "all")

occurrences(handlers, handler) ==
    Cardinality({k \in DOMAIN handlers : handlers[k] = handler})

CommandNames ==
    {"quickProcessVisitors", "testConnections", "showStatistics",
     "showConfiguration", "manualSync"}

\* what an awaited call of a command gives
CommandAnswers(awaited) ==
    CASE awaited = "getCurrentEventData" ->
            {"null", "no external users", "external users", "throws"}
      [] awaited = "getVisitorRecordsByMeetingId" -> {"records", "no records", "throws"}
      [] awaited \in {"sharePoint.testConnection", "powerAutomate.testConnection"} ->
            {"success", "failure", "throws"}
      [] OTHER -> {"ok", "throws"}

\* the command goes on to its next await
await(awaited) == [pc |-> awaited, how |-> "none"]

\* the try block of the command ends: by its last statement, by a return in
\* its middle, or by an error thrown
tryEnds(how) == [pc |-> "done", how |-> how]

\* testConnections after the SharePoint test: the Power Automate test
powerAutomateTest(c) ==
    IF c.servicesReady THEN await("powerAutomate.testConnection")
    ELSE tryEnds("returned")

\* the command from its first statement to its first await
commandStart(c) ==
    CASE c.name = "testConnections" ->
            IF c.servicesReady THEN await("sharePoint.testConnection")
            ELSE powerAutomateTest(c)
      [] ~c.servicesReady -> tryEnds("thrown")
      [] c.name \in {"quickProcessVisitors", "manualSync"} ->
            await("getCurrentEventData")
      [] c.name = "showStatistics" -> await("getStatistics")
      [] OTHER -> await("getConfig")

\* the command from the answer of the call it awaited to its next await
commandResumes(c, answer) ==
    CASE c.pc = "sharePoint.testConnection" -> powerAutomateTest(c)
      [] c.pc = "powerAutomate.testConnection" -> tryEnds("returned")
      [] answer = "throws" -> tryEnds("thrown")
      [] c.pc = "getCurrentEventData" /\ answer = "null" -> tryEnds("early return")
      [] c.pc = "getCurrentEventData" /\ c.name = "quickProcessVisitors" ->
            IF answer = "no external users" THEN tryEnds("early return")
            ELSE await("updateVisitorRecords")
      [] c.pc = "getCurrentEventData" /\ c.name = "manualSync" ->
            await("getVisitorRecordsByMeetingId")
      [] c.pc = "getVisitorRecordsByMeetingId" ->
            IF c.externalUsers THEN await("updateVisitorRecords")
            ELSE IF answer = "records" THEN await("deleteVisitorRecords")
            ELSE tryEnds("returned")
      [] c.pc = "updateVisitorRecords" /\ c.name = "quickProcessVisitors" ->
            await("sendVisitorNotification")
      [] OTHER -> tryEnds("returned")

\* a catch block that throws the error again after showing it
catchBlock_rethrow(how) == how = "thrown"

\* the catch block of a command: the error is logged and shown, and nothing
\* is thrown; the promise of the command is rejected if this gives TRUE
catchBlock(how) == FALSE

\* finally { if (event) { event.completed(); } }, and handleCommandError
eventCompleted(c) ==
    IF c.hasEvent THEN [c EXCEPT !.completed = @ + 1] ELSE c

\* the command moves on; when its try block has ended, the catch block (after
\* an error) and the finally block run, and handleCommandError if the promise
\* of the command is rejected
proceed(c, to) ==
    LET c1 == [c EXCEPT !.pc = to.pc, !.how = to.how]
    IN IF to.pc # "done" THEN c1
       ELSE IF catchBlock(to.how) THEN eventCompleted(eventCompleted(c1))
       ELSE eventCompleted(c1)

commandRest ==
    UNCHANGED <<currentMeetingData, isProcessing, loading, list, nextId, calls,
                faults, started, unserved, skipped, retry, service, classified,
                extraction, fanout, history>>

\* the host invokes window.<command>(event); showConfiguration has no await
\* but the call of getConfig, which is answered at once
commandInvoked ==
    /\ command.pc \in {"idle", "done"}
    /\ command.n < MaxCommands
    /\ \E name \in CommandNames, hasEvent \in BOOLEAN, servicesReady \in BOOLEAN :
          LET c == [command EXCEPT !.name = name, !.hasEvent = hasEvent,
                                   !.servicesReady = servicesReady,
                                   !.n = @ + 1, !.completed = 0,
                                   !.externalUsers = FALSE, !.how = "none"]
              first == commandStart(c)
          IN IF first.pc = "getConfig"
             THEN \E answer \in CommandAnswers("getConfig") :
                     command' = proceed(c, commandResumes([c EXCEPT !.pc = "getConfig"],
                                                          answer))
             ELSE command' = proceed(c, first)
    /\ commandRest

\* the call the command awaits returns or throws
commandAnswered ==
    /\ command.pc \notin {"none", "idle", "done"}
    /\ \E answer \in CommandAnswers(command.pc) :
          command' = proceed([command EXCEPT
                                 !.externalUsers =
                                     IF command.pc = "getCurrentEventData"
                                     THEN answer = "external users" ELSE @],
                             commandResumes(command, answer))
    /\ commandRest

\* the function file is loaded; no command has been invoked
InitCommand ==
    /\ \E it \in BurstItems : currentMeetingData = extractEventData(it)
    /\ isProcessing = FALSE
    /\ loading = FALSE
    /\ list = {}
    /\ nextId = 1
    /\ calls = << >>
    /\ faults = 0
    /\ started = [m \in Meetings |-> 0]
    /\ unserved = [m \in Meetings |-> FALSE]
    /\ skipped = [m \in Meetings |-> FALSE]
    /\ retry = NoRetry
    /\ service = NoService
    /\ classified = NoClassified
    /\ extraction = NoExtraction
    /\ fanout = NoFanout
    /\ history = NoHistory
    /\ command = [pc |-> "idle", name |-> "none", hasEvent |-> FALSE,
                  servicesReady |-> FALSE, externalUsers |-> FALSE, n |-> 0,
                  completed |-> 0, how |-> "none"]

NextCommand ==
    \/ commandInvoked
    \/ commandAnswered

SpecCommand == InitCommand /\ [][NextCommand]_vars

(***************************************************************************)
(* Properties of the ribbon commands.                                      *)
(***************************************************************************)
\* C35: a ribbon command invoked with an event calls event.completed()
\* exactly once on every path: not before its try block has ended, and once
\* when it has ended, by its last statement, by an early return or by the
\* failure of a service call.
CommandCompletion ==
    command.pc \notin {"none", "idle"} /\ command.hasEvent
    => command.completed = IF command.pc = "done" THEN 1 ELSE 0

\* manualSync, invoked second with an event, ended by the failure of
\* updateVisitorRecords
C35_FailedAtUpdate ==
    /\ command.pc = "done"
    /\ command.name = "manualSync"
    /\ command.hasEvent
    /\ command.externalUsers
    /\ command.how = "thrown"
    /\ command.servicesReady
    /\ command.n = 2
    /\ command.completed = 1

(***************************************************************************)
(* The notification history of PowerAutomateService: what localStorage     *)
(* holds under the key 'powerAutomate_notification_history', and the calls *)
(* of getNotificationHistory, saveNotificationHistory and                  *)
(* clearNotificationHistory. An access to localStorage may throw; each     *)
(* method catches the error and logs it.                                   *)
(***************************************************************************)
\* const maxHistorySize = 100
maxHistorySize == 100

\* getNotificationHistory(limit = 50)
defaultLimit == 50

\* the limits getNotificationHistory is called with: numbers of entries, none
\* of them negative
Limits == {0, 1, defaultLimit, maxHistorySize, maxHistorySize + defaultLimit}

\* the key is absent, or it holds the JSON of an array, the JSON of something
\* else, or a string that is no JSON
absent == [kind |-> "absent", items |-> << >>]

array(items) == [kind |-> "array", items |-> items]

\* Array.prototype.slice(0, limit) for a limit that is not negative
slice(items, limit) ==
    SubSeq(items, 1, IF limit < Len(items) THEN limit ELSE Len(items))

\* what getNotificationHistory(limit) returns
getNotificationHistoryResult(stored, storage, limit) ==
    IF storage = "ok" /\ stored.kind = "array" THEN slice(stored.items, limit)
    ELSE << >>

\* a saveNotificationHistory that never cuts the history
limitSize_none(items) == items

\* if (history.length > maxHistorySize) history = history.slice(0, maxHistorySize)
limitSize(items) ==
    IF Len(items) > maxHistorySize THEN slice(items, maxHistorySize) ELSE items

NoHistoryCall ==
    [op |-> "none", storage |-> "ok", limit |-> 0, result |-> << >>,
     before |-> << >>]

historyRest ==
    UNCHANGED <<currentMeetingData, isProcessing, loading, list, nextId, calls,
                faults, started, unserved, skipped, retry, service, classified,
                extraction, fanout, command>>

getNotificationHistory ==
    /\ history.pc = "ready"
    /\ \E limit \in Limits, storage \in {"ok", "throws"} :
          history' = [history EXCEPT
                         !.last = [NoHistoryCall EXCEPT
                                      !.op = "get", !.storage = storage,
                                      !.limit = limit,
                                      !.result = getNotificationHistoryResult(
                                                     history.stored, storage, limit)]]
    /\ historyRest

\* the notification is stamped with the time and put in front of the history
\* read with getNotificationHistory(maxHistorySize)
saveNotificationHistory ==
    /\ history.pc = "ready"
    /\ history.saves < MaxSaves
    /\ \E storage \in {"ok", "throws"} :
          LET read == getNotificationHistoryResult(history.stored, storage,
                                                   maxHistorySize)
              entry == [notification |-> history.saves + 1,
                        timestamp |-> history.saves + 1]
              written == limitSize(<< entry >> \o read)
          IN history' = [history EXCEPT
                            !.saves = IF storage = "ok" THEN @ + 1 ELSE @,
                            !.stored = IF storage = "ok" THEN array(written) ELSE @,
                            !.last = [NoHistoryCall EXCEPT
                                         !.op = "save", !.storage = storage,
                                         !.result = << entry >>,
                                         !.before = read]]
    /\ historyRest

clearNotificationHistory ==
    /\ history.pc = "ready"
    /\ history.last.op # "clear"
    /\ \E storage \in {"ok", "throws"} :
          history' = [history EXCEPT
                         !.stored = IF storage = "ok" THEN absent ELSE @,
                         !.last = [NoHistoryCall EXCEPT
                                      !.op = "clear", !.storage = storage]]
    /\ historyRest

\* a new PowerAutomateService; the key is absent or holds what is no history
InitHistory ==
    /\ \E it \in BurstItems : currentMeetingData = extractEventData(it)
    /\ isProcessing = FALSE
    /\ loading = FALSE
    /\ list = {}
    /\ nextId = 1
    /\ calls = << >>
    /\ faults = 0
    /\ started = [m \in Meetings |-> 0]
    /\ unserved = [m \in Meetings |-> FALSE]
    /\ skipped = [m \in Meetings |-> FALSE]
    /\ retry = NoRetry
    /\ service = NoService
    /\ classified = NoClassified
    /\ extraction = NoExtraction
    /\ fanout = NoFanout
    /\ command = NoCommand
    /\ \E kind \in {"absent", "object", "no JSON"} :
          history = [pc |-> "ready",
                     stored |-> [kind |-> kind, items |-> << >>],
                     saves |-> 0,
                     last |-> NoHistoryCall]

NextHistory ==
    \/ getNotificationHistory
    \/ saveNotificationHistory
    \/ clearNotificationHistory

SpecHistory == InitHistory /\ [][NextHistory]_vars

(***************************************************************************)
(* Properties of the notification history.                                 *)
(***************************************************************************)
\* the entries stored, none when the key holds no array
storedItems == IF history.stored.kind = "array" THEN history.stored.items ELSE << >>

\* C36: after any sequence of saveNotificationHistory and
\* clearNotificationHistory calls the stored history holds at most 100
\* entries, the newest first; the notification saved last is at index 0;
\* a save made when 100 entries are stored drops the oldest of them and no
\* other; getNotificationHistory(limit) returns at most limit entries, the
\* first of the stored ones, and the empty list when nothing or no array is
\* stored.
BoundedHistory ==
    history.pc = "ready"
    => /\ Len(storedItems) <= maxHistorySize
       /\ \A k \in DOMAIN storedItems : \A l \in DOMAIN storedItems :
             k < l => storedItems[k].timestamp > storedItems[l].timestamp
       /\ history.last.op = "save" /\ history.last.storage = "ok"
             => /\ history.stored.kind = "array"
                /\ storedItems[1] = history.last.result[1]
                /\ Tail(storedItems) =
                       IF Len(history.last.before) = maxHistorySize
                       THEN SubSeq(history.last.before, 1, maxHistorySize - 1)
                       ELSE history.last.before
       /\ history.last.op = "clear" /\ history.last.storage = "ok"
             => history.stored = absent
       /\ history.last.op = "get"
             => /\ Len(history.last.result) <= history.last.limit
                /\ isPrefix(history.last.result, storedItems)
                /\ history.stored.kind # "array" => history.last.result = << >>
                /\ history.last.storage = "ok"
                      => Len(history.last.result) =
                             IF history.last.limit < Len(storedItems)
                             THEN history.last.limit ELSE Len(storedItems)

\* a notification has been saved while 100 entries were stored: the oldest
\* entry is gone and 100 entries are stored
C36_SavedAtCapacity ==
    /\ history.pc = "ready"
    /\ history.last.op = "save"
    /\ history.last.storage = "ok"
    /\ Len(history.last.before) = maxHistorySize
    /\ Len(storedItems) = maxHistorySize
    /\ storedItems[1].notification = maxHistorySize + 1
    /\ storedItems[maxHistorySize].notification = 2

=============================================================================
